---- MODULE Spec2Model ----
(***************************************************************************)
(* OHLCV cache (SQLite), incremental updaters and market-breadth analyzer  *)
(* of the stock dashboard.                                                 *)
(*                                                                         *)
(* Time is counted in hours.  A DataFrame index entry is a timestamp in    *)
(* hours; the text date 'YYYY-MM-DD' of a stored row is the day number     *)
(* (timestamp \div 24), whose order is the order of the ISO date strings.  *)
(* The columns id and updated_at of ohlcv_data are written by SQLite only  *)
(* and read by no query of the repository; they are not part of a row.     *)
(***************************************************************************)
EXTENDS Bags, Integers, Sequences, FiniteSets, TLC

VARIABLES
    conn,       \* what the shared sqlite3 connection sees: committed rows plus its open transaction
    disk,       \* the committed content of ohlcv_cache.db
    now,        \* datetime.now(), in hours
    last,       \* the last completed call on the cache: name, arguments, outcome
    lastPut,    \* ghost: for every key, the bar written by the latest committed save_ohlcv holding it
    pc,         \* per thread: position inside save_ohlcv
    call,       \* per thread: the arguments of its save_ohlcv call
    idx,        \* per thread: number of rows of its DataFrame already executed
    disk0,      \* ghost: the committed content when the call under observation was issued
    phase,      \* analyze_market_breadth: "idle", "running" (inside the executor block), "returned"
    req,        \* its arguments: symbols, min_trading_value, batch_size
    fut,        \* per symbol: state of its future in the thread pool
    elapsed,    \* per symbol: seconds its analyze_single_symbol has been running
    result,     \* per symbol: what analyze_single_symbol returned
    stats,      \* the stats dictionary and the local counters of the call
    processed,  \* the futures as_completed has handed to the loop body
    cache_file, \* the content of market_breadth_cache.json
    latestSave  \* ghost: the stats and the time of the latest save_stats call

breadthVars == <<phase, req, fut, elapsed, result, stats, processed>>

fileVars == <<cache_file, latestSave>>

vars == <<conn, disk, now, last, lastPut, pc, call, idx, disk0, breadthVars, fileVars>>

-----------------------------------------------------------------------------
(* Bounds and input sets *)

MaxLen == 2
MaxNow == 72
HoursPerDay == 24

Symbols == {"AAA", "BBB"}
Resolutions == {"1D", "1W"}
Threads == {1, 2}

\* Cell values of the price columns: a number, a value sqlite3 cannot bind
\* (cursor.execute raises InterfaceError), or a non-numeric text that SQLite
\* stores as TEXT in the REAL column.
Num(n) == [num |-> n]
Unbindable == [unbindable |-> TRUE]
TextClose == [text |-> "n/a"]
IsNum(c) == "num" \in DOMAIN c

FrameRow(ts, c, v) ==
    [date |-> ts, open |-> c, high |-> c, low |-> c, close |-> c, volume |-> v]

\* Rows offered to save_ohlcv: day 0, day 1 at midnight and at an intraday
\* stamp with another close, and a day-1 row that cannot be bound.
FrameRows ==
    {FrameRow(0, Num(100), 1000),
     FrameRow(24, Num(100), 1000), FrameRow(31, Num(200), 1000),
     FrameRow(24, Unbindable, 1000)}

SeqsUpTo(S, n) == UNION {[1..k -> S] : k \in 0..n}

Frames == SeqsUpTo(FrameRows, MaxLen)

NoCall == [op |-> "none"]

-----------------------------------------------------------------------------
(* The database: two tables, each a set of rows *)

EmptyDb == [ohlcv_data |-> {}, cache_metadata |-> {}]

\* strftime('%Y-%m-%d') of a timestamp
StrfDate(ts) == ts \div HoursPerDay

\* pd.to_datetime of a stored text date: midnight of that day
ToDatetime(day) == day * HoursPerDay

RowKey(row) == <<row.symbol, row.date, row.resolution>>

\* a plain INSERT into a table without the UNIQUE constraint
InsertOrReplaceRow_NoUnique(table, row) ==
    table \cup {row}

\* INSERT OR REPLACE INTO ohlcv_data under UNIQUE(symbol, date, resolution)
InsertOrReplaceRow(table, row) ==
    {r \in table : RowKey(r) # RowKey(row)} \cup {row}

\* a metadata write that adds the call's row count to the count already recorded
InsertOrReplaceMeta_Accumulate(table, m) ==
    LET old == {r \in table : r.symbol = m.symbol /\ r.resolution = m.resolution}
        base == IF old = {} THEN 0 ELSE (CHOOSE r \in old : TRUE).record_count
    IN (table \ old) \cup {[m EXCEPT !.record_count = base + m.record_count]}

\* INSERT OR REPLACE INTO cache_metadata under PRIMARY KEY (symbol, resolution)
InsertOrReplaceMeta(table, m) ==
    {r \in table : ~(r.symbol = m.symbol /\ r.resolution = m.resolution)} \cup {m}

\* The row save_ohlcv builds from row i of df_copy
DataRow(symbol, resolution, fr) ==
    [symbol |-> symbol, date |-> StrfDate(fr.date),
     open |-> fr.open, high |-> fr.high, low |-> fr.low, close |-> fr.close,
     volume |-> fr.volume, resolution |-> resolution]

\* cursor.execute raises on a value it cannot bind
Raises(fr) == fr.close = Unbindable

\* Index of the first row whose execute raises, 0 if none does
FirstRaise(df) ==
    IF \E i \in 1..Len(df) : Raises(df[i])
    THEN CHOOSE i \in 1..Len(df) : Raises(df[i]) /\ \A j \in 1..(i-1) : ~Raises(df[j])
    ELSE 0

\* The for-loop of save_ohlcv over the first n rows of df
RECURSIVE UpsertRows(_, _, _, _, _)
UpsertRows(table, symbol, resolution, df, n) ==
    IF n = 0 THEN table
    ELSE InsertOrReplaceRow(UpsertRows(table, symbol, resolution, df, n - 1),
                            DataRow(symbol, resolution, df[n]))

MinOf(S) == CHOOSE x \in S : \A y \in S : x <= y
MaxOf(S) == CHOOSE x \in S : \A y \in S : x >= y

FrameDates(df) == {StrfDate(df[i].date) : i \in 1..Len(df)}

\* The metadata row of one save_ohlcv call
MetaRow(symbol, resolution, df, t) ==
    [symbol |-> symbol, resolution |-> resolution, last_update |-> t,
     start_date |-> MinOf(FrameDates(df)), end_date |-> MaxOf(FrameDates(df)),
     record_count |-> Len(df)]

\* an except branch that forgets the rollback
Rollback_Missing(c, d) == c

\* self.conn.rollback(): the connection drops its open transaction
Rollback(c, d) == d

\* save_ohlcv as one call on a connection with view c over committed content d:
\* the view and committed content afterwards, and how the call ended
SaveOhlcv(c, d, symbol, df, resolution, t) ==
    IF df = <<>> THEN [conn |-> c, disk |-> d, outcome |-> "skipped"]
    ELSE LET k == FirstRaise(df) IN
         IF k # 0
         THEN LET partial == [c EXCEPT !.ohlcv_data =
                                 UpsertRows(c.ohlcv_data, symbol, resolution, df, k - 1)]
                  back == Rollback(partial, d)
              IN [conn |-> back, disk |-> d, outcome |-> "rolled_back"]
         ELSE LET done == [ohlcv_data |-> UpsertRows(c.ohlcv_data, symbol, resolution, df, Len(df)),
                           cache_metadata |-> InsertOrReplaceMeta(c.cache_metadata,
                                                 MetaRow(symbol, resolution, df, t))]
              IN [conn |-> done, disk |-> done, outcome |-> "committed"]

\* a clear_cache that deletes the bars and leaves the metadata
ClearCacheDb_KeepsMetadata(c, symbol) ==
    IF symbol # "None"
    THEN [c EXCEPT !.ohlcv_data = {r \in c.ohlcv_data : r.symbol # symbol}]
    ELSE [c EXCEPT !.ohlcv_data = {}]

\* clear_cache(symbol) and clear_cache(None)
ClearCacheDb(c, symbol) ==
    IF symbol # "None"
    THEN [ohlcv_data |-> {r \in c.ohlcv_data : r.symbol # symbol},
          cache_metadata |-> {m \in c.cache_metadata : m.symbol # symbol}]
    ELSE EmptyDb

\* get_cached_symbols(resolution): SELECT DISTINCT symbol FROM cache_metadata
\* WHERE resolution = ? ORDER BY symbol; the list is the set in ascending order
GetCachedSymbols(c, resolution) ==
    {m.symbol : m \in {x \in c.cache_metadata : x.resolution = resolution}}

\* the default of get_cached_symbols' resolution parameter
DefaultResolution == "1D"

\* DailyOHLCVUpdater.get_all_cached_tickers, on a connection of its own:
\* SELECT DISTINCT symbol FROM ohlcv_data ORDER BY symbol
GetAllCachedTickers(d) == {r.symbol : r \in d.ohlcv_data}

Bar(r) == [open |-> r.open, high |-> r.high, low |-> r.low, close |-> r.close, volume |-> r.volume]

\* ghost update: the bars a committed save_ohlcv(symbol, df, resolution) wrote, later rows
\* winning; replaced records that a key was written again with another bar
RECURSIVE PutBars(_, _, _, _, _)
PutBars(f, symbol, resolution, df, n) ==
    IF n = 0 THEN f
    ELSE LET g == PutBars(f, symbol, resolution, df, n - 1)
             row == DataRow(symbol, resolution, df[n])
             key == RowKey(row)
         IN [k \in (DOMAIN g) \cup {key} |->
                IF k = key
                THEN [bar |-> Bar(row),
                      replaced |-> key \in DOMAIN g /\ (g[key].replaced \/ g[key].bar # Bar(row))]
                ELSE g[k]]

EmptyFn == [k \in {} |-> 0]

-----------------------------------------------------------------------------
(* Sequential use of the cache manager: every call runs to its end *)

Idle == \A t \in Threads : pc[t] = "idle"

\* updater.tickers, the symbols the breadth analysis can be asked about
Tickers == <<"AAA", "BBB", "CCC">>
Universe == {Tickers[i] : i \in 1..Len(Tickers)}

NoResult == [kind |-> "pending"]

EmptyStats ==
    [above_ma20 |-> 0, above_ma50 |-> 0, above_ma200 |-> 0, ema9_above_ema21 |-> 0,
     total |-> 0, analyzed |-> <<>>, failed |-> <<>>,
     filtered_out_count |-> 0, low_value_stocks |-> <<>>]

\* no analyze_market_breadth call has been made
BreadthIdle ==
    /\ phase = "idle"
    /\ req = [symbols |-> {}, min_trading_value |-> 0, batch_size |-> 0]
    /\ fut = [s \in Universe |-> "none"]
    /\ elapsed = [s \in Universe |-> 0]
    /\ result = [s \in Universe |-> NoResult]
    /\ stats = EmptyStats
    /\ processed = {}

\* market_breadth_cache.json does not exist and save_stats was never called
FileMissing == [exists |-> FALSE]
NeverSaved == [called |-> FALSE]

NoCacheFile ==
    /\ cache_file = FileMissing
    /\ latestSave = NeverSaved

Init ==
    /\ conn = EmptyDb
    /\ disk = EmptyDb
    /\ now = 0
    /\ last = NoCall
    /\ lastPut = EmptyFn
    /\ pc = [t \in Threads |-> "idle"]
    /\ call = [t \in Threads |-> NoCall]
    /\ idx = [t \in Threads |-> 0]
    /\ disk0 = EmptyDb
    /\ BreadthIdle
    /\ NoCacheFile

save_ohlcv(symbol, df, resolution) ==
    LET res == SaveOhlcv(conn, disk, symbol, df, resolution, now) IN
    /\ Idle
    /\ conn' = res.conn
    /\ disk' = res.disk
    /\ last' = [op |-> "save_ohlcv", symbol |-> symbol, resolution |-> resolution,
                outcome |-> res.outcome]
    /\ lastPut' = IF res.outcome = "committed"
                  THEN PutBars(lastPut, symbol, resolution, df, Len(df))
                  ELSE lastPut
    /\ UNCHANGED <<now, pc, call, idx, disk0, breadthVars, fileVars>>

clear_cache(symbol) ==
    /\ Idle
    /\ conn' = ClearCacheDb(conn, symbol)
    /\ disk' = conn'
    /\ last' = [op |-> "clear_cache", symbol |-> symbol]
    /\ lastPut' = [k \in {k \in DOMAIN lastPut : symbol # "None" /\ k[1] # symbol} |-> lastPut[k]]
    /\ UNCHANGED <<now, pc, call, idx, disk0, breadthVars, fileVars>>

Tick(h) ==
    /\ now + h <= MaxNow
    /\ now' = now + h
    /\ UNCHANGED <<conn, disk, last, lastPut, pc, call, idx, disk0, breadthVars, fileVars>>

\* The sequential calls write any frame for AAA at either resolution, and one
\* fixed frame for the second symbol.
BystanderFrame == <<FrameRow(0, Num(100), 1000)>>

Next ==
    \/ \E r \in Resolutions, df \in Frames : save_ohlcv("AAA", df, r)
    \/ save_ohlcv("BBB", BystanderFrame, "1D")
    \/ \E s \in Symbols \cup {"None"} : clear_cache(s)

Spec == Init /\ [][Next]_vars

-----------------------------------------------------------------------------
(* save_ohlcv statement by statement, for threads sharing self.conn *)

\* a caller hands save_ohlcv its arguments
Issue(t, symbol, df, resolution) ==
    /\ Idle
    /\ pc' = [pc EXCEPT ![t] = "start"]
    /\ call' = [call EXCEPT ![t] =
                  [op |-> "save_ohlcv", symbol |-> symbol, resolution |-> resolution, df |-> df,
                   outcome |-> "running",
                   repeat |-> /\ call[t].op = "save_ohlcv"
                              /\ call[t].symbol = symbol
                              /\ call[t].resolution = resolution
                              /\ call[t].df = df]]
    /\ idx' = [idx EXCEPT ![t] = 0]
    /\ disk0' = disk
    /\ UNCHANGED <<conn, disk, now, last, lastPut, breadthVars, fileVars>>

\* if df.empty: return
Enter(t) ==
    /\ pc[t] = "start"
    /\ IF call[t].df = <<>>
       THEN /\ pc' = [pc EXCEPT ![t] = "idle"]
            /\ call' = [call EXCEPT ![t].outcome = "skipped"]
       ELSE /\ pc' = [pc EXCEPT ![t] = "loop"]
            /\ UNCHANGED call
    /\ UNCHANGED <<conn, disk, now, last, lastPut, idx, disk0, breadthVars, fileVars>>

\* one cursor.execute of the for-loop
Execute(t) ==
    /\ pc[t] = "loop"
    /\ idx[t] < Len(call[t].df)
    /\ LET fr == call[t].df[idx[t] + 1] IN
       IF Raises(fr)
       THEN /\ pc' = [pc EXCEPT ![t] = "except"]
            /\ UNCHANGED <<conn, idx>>
       ELSE /\ conn' = [conn EXCEPT !.ohlcv_data =
                          InsertOrReplaceRow(@, DataRow(call[t].symbol, call[t].resolution, fr))]
            /\ idx' = [idx EXCEPT ![t] = @ + 1]
            /\ UNCHANGED pc
    /\ UNCHANGED <<disk, now, last, lastPut, call, disk0, breadthVars, fileVars>>

\* INSERT OR REPLACE INTO cache_metadata
UpdateMetadata(t) ==
    /\ pc[t] = "loop"
    /\ idx[t] = Len(call[t].df)
    /\ conn' = [conn EXCEPT !.cache_metadata =
                  InsertOrReplaceMeta(@, MetaRow(call[t].symbol, call[t].resolution, call[t].df, now))]
    /\ pc' = [pc EXCEPT ![t] = "commit"]
    /\ UNCHANGED <<disk, now, last, lastPut, call, idx, disk0, breadthVars, fileVars>>

\* self.conn.commit(): everything the connection has pending becomes durable
Commit(t) ==
    /\ pc[t] = "commit"
    /\ disk' = conn
    /\ pc' = [pc EXCEPT ![t] = "idle"]
    /\ call' = [call EXCEPT ![t].outcome = "committed"]
    /\ UNCHANGED <<conn, now, last, lastPut, idx, disk0, breadthVars, fileVars>>

\* except Exception: self.conn.rollback()
Except(t) ==
    /\ pc[t] = "except"
    /\ conn' = Rollback(conn, disk)
    /\ pc' = [pc EXCEPT ![t] = "idle"]
    /\ call' = [call EXCEPT ![t].outcome = "rolled_back"]
    /\ UNCHANGED <<disk, now, last, lastPut, idx, disk0, breadthVars, fileVars>>

\* One caller, one (symbol, resolution), call after call
NextCalls ==
    \/ \E df \in Frames : Issue(1, "AAA", df, "1D")
    \/ Enter(1)
    \/ Execute(1)
    \/ UpdateMetadata(1)
    \/ Commit(1)
    \/ Except(1)

SpecCalls == Init /\ [][NextCalls]_vars

\* Two threads, each inside one save_ohlcv call for the same symbol
MaxConcLen == 2
ConcFrames == {df \in Frames : Len(df) \in 1..MaxConcLen}

InitConc ==
    /\ conn = EmptyDb
    /\ disk = EmptyDb
    /\ now = 0
    /\ last = NoCall
    /\ lastPut = EmptyFn
    /\ pc = [t \in Threads |-> "start"]
    /\ call \in [Threads -> {[op |-> "save_ohlcv", symbol |-> "AAA", resolution |-> "1D",
                             df |-> df, outcome |-> "running", repeat |-> FALSE] : df \in ConcFrames}]
    /\ idx = [t \in Threads |-> 0]
    /\ disk0 = EmptyDb
    /\ BreadthIdle
    /\ NoCacheFile

NextConc ==
    \E t \in Threads :
        \/ Enter(t)
        \/ Execute(t)
        \/ UpdateMetadata(t)
        \/ Commit(t)
        \/ Except(t)

SpecConc == InitConc /\ [][NextConc]_vars

-----------------------------------------------------------------------------
(* The price gateway and the two updaters *)

\* What a gateway call does: it raises with a message, or returns a frame
RateLimited == [kind |-> "raise", msg |-> "rate limit exceeded", df |-> <<>>]
TimedOut == [kind |-> "raise", msg |-> "connection timed out", df |-> <<>>]
Returned(df) == [kind |-> "frame", msg |-> "", df |-> df]

\* Bars a vendor returns: daily bars of days 0..2 and an intraday stamp of day 1
GatewayRows ==
    {FrameRow(0, Num(100), 1000), FrameRow(24, Num(100), 1000),
     FrameRow(31, Num(200), 1000), FrameRow(48, Num(100), 1000)}

\* The connectors sort by date: frames are in ascending order of their index
GatewayFrames ==
    {df \in SeqsUpTo(GatewayRows, MaxLen) :
        \A i \in 1..Len(df), j \in 1..Len(df) : i < j => df[i].date < df[j].date}

Replies == {RateLimited, TimedOut} \cup {Returned(df) : df \in GatewayFrames}

\* "rate limit" in str(e).lower()
IsRateLimit(reply) == reply.kind = "raise" /\ reply.msg = "rate limit exceeded"

\* the gateway raised or returned nothing
ReplyFails(reply) == reply.kind = "raise" \/ reply.df = <<>>

\* HybridOHLCVConnector.get_ohlcv as OHLCVUpdater builds it (no fallback):
\* a raise of the primary connector is caught and an empty frame returned
HybridGetOhlcv(reply) == IF reply.kind = "frame" THEN reply.df ELSE <<>>

\* an is_cache_valid that still accepts metadata exactly max_age_hours old
IsCacheValid_Inclusive(c, symbol, resolution, max_age_hours, t) ==
    \E m \in c.cache_metadata :
        /\ m.symbol = symbol /\ m.resolution = resolution
        /\ (t - m.last_update) * 3600 <= max_age_hours * 3600

\* OHLCVCacheManager.is_cache_valid
IsCacheValid(c, symbol, resolution, max_age_hours, t) ==
    \E m \in c.cache_metadata :
        /\ m.symbol = symbol /\ m.resolution = resolution
        /\ (t - m.last_update) * 3600 < max_age_hours * 3600

\* is_cache_valid(symbol, resolution, max_age_hours) called on the cache manager;
\* without a metadata row fetchone() gives None and the answer is False
is_cache_valid(symbol, resolution, max_age_hours) ==
    /\ Idle
    /\ last' = [op |-> "is_cache_valid", symbol |-> symbol, resolution |-> resolution,
                max_age_hours |-> max_age_hours, at |-> now, raised |-> FALSE,
                valid |-> IsCacheValid(conn, symbol, resolution, max_age_hours, now)]
    /\ UNCHANGED <<conn, disk, now, lastPut, pc, call, idx, disk0, breadthVars, fileVars>>

\* max_age_hours asked of is_cache_valid, and its callers: saves of one bar
\* for AAA at both resolutions and for BBB, clear_cache, the clock
ValidAges == {0, 1, HoursPerDay, 2 * HoursPerDay}

NextValid ==
    \/ \E r \in Resolutions : save_ohlcv("AAA", BystanderFrame, r)
    \/ save_ohlcv("BBB", BystanderFrame, "1D")
    \/ \E s \in Symbols : clear_cache(s)
    \/ \E s \in Symbols, r \in Resolutions, m \in ValidAges : is_cache_valid(s, r, m)
    \/ Tick(HoursPerDay)

SpecValid == Init /\ [][NextValid]_vars

ValidHours == 24
DaysBack == 365

\* OHLCVUpdater.update_ticker that reports success although nothing was received
UpdaterUpdateTicker_IgnoresEmpty(c, d, symbol, reply, force_update, t) ==
    IF ~force_update /\ IsCacheValid(c, symbol, "1D", ValidHours, t)
    THEN [conn |-> c, disk |-> d, ok |-> TRUE, called |-> FALSE, saved |-> <<>>,
          outcome |-> "skipped", request |-> <<0, 0>>]
    ELSE LET df == HybridGetOhlcv(reply)
             res == SaveOhlcv(c, d, symbol, df, "1D", t)
         IN [conn |-> res.conn, disk |-> res.disk, ok |-> TRUE, called |-> TRUE,
             saved |-> df, outcome |-> res.outcome,
             request |-> <<StrfDate(t - DaysBack * HoursPerDay), StrfDate(t)>>]

\* OHLCVUpdater.update_ticker(symbol, days_back=365, force_update)
UpdaterUpdateTicker(c, d, symbol, reply, force_update, t) ==
    IF ~force_update /\ IsCacheValid(c, symbol, "1D", ValidHours, t)
    THEN [conn |-> c, disk |-> d, ok |-> TRUE, called |-> FALSE, saved |-> <<>>,
          outcome |-> "skipped", request |-> <<0, 0>>]
    ELSE LET df == HybridGetOhlcv(reply) IN
         IF df # <<>>
         THEN LET res == SaveOhlcv(c, d, symbol, df, "1D", t) IN
              [conn |-> res.conn, disk |-> res.disk, ok |-> TRUE, called |-> TRUE,
               saved |-> df, outcome |-> res.outcome,
               request |-> <<StrfDate(t - DaysBack * HoursPerDay), StrfDate(t)>>]
         ELSE [conn |-> c, disk |-> d, ok |-> FALSE, called |-> TRUE, saved |-> <<>>,
               outcome |-> "skipped",
               request |-> <<StrfDate(t - DaysBack * HoursPerDay), StrfDate(t)>>]

\* DailyOHLCVUpdater.get_last_cached_date, on its own connection: the set holding
\* pd.to_datetime(MAX(date)) of the ticker's rows, empty for None
GetLastCachedDate(d, ticker) ==
    LET days == {r.date : r \in {x \in d.ohlcv_data : x.symbol = ticker}} IN
    IF days = {} THEN {} ELSE {ToDatetime(MaxOf(days))}

\* df[df.index > last_date], applied only when last_date is set
FilterNewer(df, lastSet) ==
    IF lastSet = {} THEN df
    ELSE LET last_date == CHOOSE x \in lastSet : TRUE
             Newer(fr) == fr.date > last_date
         IN SelectSeq(df, Newer)

FreshDays == 1
OverlapDays == 5
FullDays == 1825

\* a test that skips only on the day of the last cached bar
AlreadyUpToDate_SameDayOnly(t, last_date) ==
    (t - last_date) \div HoursPerDay < FreshDays

\* days_diff = (datetime.now() - last_date).days; days_diff <= 1
AlreadyUpToDate(t, last_date) ==
    (t - last_date) \div HoursPerDay <= FreshDays

\* an incremental request that asks for the whole history again
IncrementalWindow_Full(last_date, t) ==
    <<StrfDate(t - FullDays * HoursPerDay), StrfDate(t)>>

\* start_date and end_date when something is cached: from five days before
\* the last cached date to today
IncrementalWindow(last_date, t) ==
    <<StrfDate(last_date - OverlapDays * HoursPerDay), StrfDate(t)>>

\* a first request that asks for one year only
FullWindow_OneYear(t) ==
    <<StrfDate(t - DaysBack * HoursPerDay), StrfDate(t)>>

\* start_date and end_date when nothing is cached: the last 365 * 5 days
FullWindow(t) ==
    <<StrfDate(t - FullDays * HoursPerDay), StrfDate(t)>>

\* DailyOHLCVUpdater.update_ticker(ticker) with the replies vn of VnStock and tc of TCBS
DailyUpdateTicker(c, d, ticker, vn, tc, t) ==
    LET lastSet == GetLastCachedDate(d, ticker)
        last_date == CHOOSE x \in lastSet : TRUE
        request == IF lastSet # {} THEN IncrementalWindow(last_date, t) ELSE FullWindow(t)
        Failed == [conn |-> c, disk |-> d, none |-> TRUE, records |-> 0, source |-> "Failed",
                   saved |-> <<>>, outcome |-> "skipped", request |-> request]
        Stored(df, source) ==
            LET res == SaveOhlcv(c, d, ticker, df, "1D", t) IN
            [conn |-> res.conn, disk |-> res.disk, none |-> FALSE, records |-> Len(df),
             source |-> source, saved |-> df, outcome |-> res.outcome, request |-> request]
    IN
    IF lastSet # {} /\ AlreadyUpToDate(t, last_date)
    THEN [conn |-> c, disk |-> d, none |-> TRUE, records |-> 0,
          source |-> "Already up-to-date", called |-> {}, saved |-> <<>>,
          outcome |-> "skipped", request |-> <<0, 0>>]
    ELSE IF vn.kind = "frame"
    THEN [called |-> {"VnStock"}] @@
         (IF vn.df # <<>>
          THEN LET df == FilterNewer(vn.df, lastSet) IN
               IF df # <<>> THEN Stored(df, "VnStock")
               ELSE [Failed EXCEPT !.none = FALSE, !.source = "No new data"]
          ELSE Failed)
    ELSE IF IsRateLimit(vn)
    THEN [called |-> {"VnStock", "TCBS"}] @@
         (IF tc.kind = "frame" /\ tc.df # <<>>
          THEN LET df == FilterNewer(tc.df, lastSet) IN
               IF df # <<>> THEN Stored(df, "TCBS") ELSE Failed
          ELSE Failed)
    ELSE [called |-> {"VnStock"}] @@ Failed

\* the gateway as the daily updater consults it yields no bars
DailyGatewayFails(vn, tc) == ReplyFails(vn) /\ (IsRateLimit(vn) => ReplyFails(tc))

PutGhost(symbol, df, outcome) ==
    IF outcome = "committed" THEN PutBars(lastPut, symbol, "1D", df, Len(df)) ELSE lastPut

daily_update_ticker(ticker, vn, tc) ==
    LET res == DailyUpdateTicker(conn, disk, ticker, vn, tc, now) IN
    /\ Idle
    /\ conn' = res.conn
    /\ disk' = res.disk
    /\ last' = [op |-> "DailyOHLCVUpdater.update_ticker", symbol |-> ticker,
                called |-> res.called # {}, sources |-> res.called,
                gateway_failed |-> DailyGatewayFails(vn, tc),
                failure |-> res.none /\ res.source = "Failed",
                none |-> res.none, records |-> res.records, source |-> res.source,
                outcome |-> res.outcome, request |-> res.request]
    /\ lastPut' = PutGhost(ticker, res.saved, res.outcome)
    /\ UNCHANGED <<now, pc, call, idx, disk0, breadthVars, fileVars>>

update_ticker(symbol, reply, force_update) ==
    LET res == UpdaterUpdateTicker(conn, disk, symbol, reply, force_update, now) IN
    /\ Idle
    /\ conn' = res.conn
    /\ disk' = res.disk
    /\ last' = [op |-> "OHLCVUpdater.update_ticker", symbol |-> symbol,
                called |-> res.called, sources |-> IF res.called THEN {"TCBS"} ELSE {},
                gateway_failed |-> ReplyFails(reply),
                failure |-> ~res.ok,
                none |-> FALSE, records |-> Len(res.saved), source |-> "",
                outcome |-> res.outcome, request |-> res.request]
    /\ lastPut' = PutGhost(symbol, res.saved, res.outcome)
    /\ UNCHANGED <<now, pc, call, idx, disk0, breadthVars, fileVars>>

\* TCBS is consulted only after a rate-limit error of VnStock
NextUpd ==
    \/ \E vn \in Replies :
         \E tc \in (IF IsRateLimit(vn) THEN Replies ELSE {TimedOut}) :
            daily_update_ticker("AAA", vn, tc)
    \/ \E reply \in Replies, force \in BOOLEAN : update_ticker("AAA", reply, force)
    \/ Tick(HoursPerDay)

SpecUpd == Init /\ [][NextUpd]_vars

\* A bar save_ohlcv cannot bind; frames that hold it alone, after a good bar,
\* before a good bar
UnbindableRow == FrameRow(2 * HoursPerDay, Unbindable, 1000)

FaultyFrames ==
    {<<UnbindableRow>>,
     <<FrameRow(HoursPerDay, Num(100), 1000), UnbindableRow>>,
     <<UnbindableRow, FrameRow(3 * HoursPerDay, Num(100), 1000)>>}

\* The gateway raises, returns the bar of day 0 alone, or one of those frames
FaultyReplies ==
    {RateLimited, TimedOut, Returned(<<FrameRow(0, Num(100), 1000)>>)}
        \cup {Returned(df) : df \in FaultyFrames}

\* The updaters over that gateway
NextUpdFaulty ==
    \/ \E vn \in FaultyReplies :
         \E tc \in (IF IsRateLimit(vn) THEN FaultyReplies ELSE {TimedOut}) :
            daily_update_ticker("AAA", vn, tc)
    \/ \E reply \in FaultyReplies, force \in BOOLEAN : update_ticker("AAA", reply, force)
    \/ Tick(HoursPerDay)

SpecUpdFaulty == Init /\ [][NextUpdFaulty]_vars

-----------------------------------------------------------------------------
(* Market breadth: analyze_market_breadth and its thread pool *)

\* Trading values are counted in million VND: closes in thousand VND, volumes
\* in thousand shares.  3000 stands for the default 3_000_000_000 VND.
DefaultMinTradingValue == 3000
MinBars == 20
MaWindow20 == 20
MaWindow50 == 50
MaWindow200 == 200
EmaSpan9 == 9
EmaSpan21 == 21
MaxWorkers == 20
TimeoutSeconds == 5

\* seconds a running worker may be observed to take, in steps of TickSeconds
MaxElapsed == 6
TickSeconds == TimeoutSeconds + 1

\* The stored bars of one symbol and resolution
StoredRows(d, symbol, resolution) ==
    {r \in d.ohlcv_data : r.symbol = symbol /\ r.resolution = resolution}

\* ORDER BY date over rows of one symbol and resolution, whose dates differ:
\* the rows dated lo..hi in date order, the range halved until one day is left
RECURSIVE SortFrom(_, _, _)
SortFrom(S, lo, hi) ==
    LET within == {r \in S : lo <= r.date /\ r.date <= hi}
        mid == (lo + hi) \div 2
    IN IF within = {} THEN <<>>
       ELSE IF lo = hi THEN <<CHOOSE r \in within : TRUE>>
       ELSE SortFrom(within, lo, mid) \o SortFrom(within, mid + 1, hi)

SortByDate(S) ==
    IF S = {} THEN <<>>
    ELSE LET days == {r.date : r \in S} IN SortFrom(S, MinOf(days), MaxOf(days))

\* OHLCVCacheManager.get_ohlcv(symbol) without date bounds: the rows in date
\* order, the empty sequence standing for None
GetOhlcv(c, symbol, resolution) ==
    SortByDate(StoredRows(c, symbol, resolution))

\* The optional date bounds of get_ohlcv: None, or a 'YYYY-MM-DD' day
NoBound == [none |-> TRUE]
Day(d) == [day |-> d]
IsBound(b) == "day" \in DOMAIN b

\* a get_ohlcv that raises when the query selects no row
GetOhlcvBetween_RaisesOnMiss(c, symbol, start_date, end_date, resolution) ==
    LET rows == {r \in StoredRows(c, symbol, resolution) :
                    /\ IsBound(start_date) => r.date >= start_date.day
                    /\ IsBound(end_date) => r.date <= end_date.day}
    IN [raised |-> rows = {}, df |-> SortByDate(rows)]

\* OHLCVCacheManager.get_ohlcv(symbol, start_date, end_date, resolution): the
\* selected rows in date order; None, here the empty sequence, when there is
\* none or the query raised
GetOhlcvBetween(c, symbol, start_date, end_date, resolution) ==
    LET rows == {r \in StoredRows(c, symbol, resolution) :
                    /\ IsBound(start_date) => r.date >= start_date.day
                    /\ IsBound(end_date) => r.date <= end_date.day}
    IN [raised |-> FALSE, df |-> SortByDate(rows)]

get_ohlcv(symbol, start_date, end_date, resolution) ==
    LET got == GetOhlcvBetween(conn, symbol, start_date, end_date, resolution) IN
    /\ Idle
    /\ last' = [op |-> "get_ohlcv", symbol |-> symbol, resolution |-> resolution,
                start_date |-> start_date, end_date |-> end_date,
                raised |-> got.raised, df |-> got.df]
    /\ UNCHANGED <<conn, disk, now, lastPut, pc, call, idx, disk0, breadthVars, fileVars>>

\* The reads asked of the cache: either bound absent or one of three days;
\* the writes around them store day 0, day 1 or both for AAA and day 0 for BBB
DateBounds == {NoBound, Day(0), Day(1), Day(2)}
GetFrames == {BystanderFrame, <<FrameRow(HoursPerDay, Num(100), 1000)>>}

NextGet ==
    \/ \E r \in Resolutions, df \in GetFrames : save_ohlcv("AAA", df, r)
    \/ save_ohlcv("BBB", BystanderFrame, "1D")
    \/ \E s \in Symbols : clear_cache(s)
    \/ \E s \in Universe, r \in Resolutions, a \in DateBounds, b \in DateBounds :
         get_ohlcv(s, a, b, r)

SpecGet == Init /\ [][NextGet]_vars

\* a get_ticker_data that refreshes from the gateway on every call
GetTickerData_AlwaysUpdates(c, d, symbol, reply, t) ==
    LET u == UpdaterUpdateTicker(c, d, symbol, reply, TRUE, t) IN
    [conn |-> u.conn, disk |-> u.disk, df |-> GetOhlcv(u.conn, symbol, "1D"),
     saved |-> u.saved, outcome |-> u.outcome]

\* OHLCVUpdater.get_ticker_data(symbol): the cached frame, after one
\* update_ticker(symbol) when nothing is cached
GetTickerData(c, d, symbol, reply, t) ==
    LET df == GetOhlcv(c, symbol, "1D") IN
    IF df = <<>>
    THEN LET u == UpdaterUpdateTicker(c, d, symbol, reply, FALSE, t) IN
         [conn |-> u.conn, disk |-> u.disk, df |-> GetOhlcv(u.conn, symbol, "1D"),
          saved |-> u.saved, outcome |-> u.outcome]
    ELSE [conn |-> c, disk |-> d, df |-> df, saved |-> <<>>, outcome |-> "skipped"]

\* the sum of the closes of rows from..to, the range halved until one row is left
RECURSIVE SumCloses(_, _, _)
SumCloses(df, from, to) ==
    IF from > to THEN 0
    ELSE IF from = to THEN df[from].close.num
    ELSE LET mid == (from + to) \div 2
         IN SumCloses(df, from, mid) + SumCloses(df, mid + 1, to)

\* a comparison that counts a close equal to its moving average as above
AboveMa_OrEqual(df, k) ==
    /\ Len(df) >= k
    /\ k * df[Len(df)].close.num >= SumCloses(df, Len(df) - k + 1, Len(df))

\* not pd.isna(ma) and close > ma, for ma = close_series.rolling(k).mean().iloc[-1]
\* when data_len >= k and pd.NA otherwise
AboveMa(df, k) ==
    /\ Len(df) >= k
    /\ k * df[Len(df)].close.num > SumCloses(df, Len(df) - k + 1, Len(df))

RECURSIVE Gcd(_, _)
Gcd(a, b) == IF b = 0 THEN a ELSE Gcd(b, a % b)

\* One step of ewm(span, adjust=False): y = (1 - alpha) * p + alpha * x with
\* alpha = 2 / (span + 1), p and y reduced fractions
EmaStep(p, x, span) ==
    LET num == (span - 1) * p[1] + 2 * x * p[2]
        den == (span + 1) * p[2]
        g == Gcd(num, den)
    IN <<num \div g, den \div g>>

\* The steps over rows from..to in row order, starting from p; the range is
\* halved until one row is left, and the value q after the first half (a
\* fraction, its denominator positive) is worked out before the second half
RECURSIVE EmaOver(_, _, _, _, _)
EmaOver(df, span, p, from, to) ==
    IF from > to THEN p
    ELSE IF from = to THEN EmaStep(p, df[from].close.num, span)
    ELSE LET mid == (from + to) \div 2
             q == EmaOver(df, span, p, from, mid)
         IN IF q[2] > 0 THEN EmaOver(df, span, q, mid + 1, to) ELSE q

\* close_series.ewm(span, adjust=False).mean() at row n, as a reduced fraction:
\* y[1] = x[1], y[i] = (1 - alpha) * y[i-1] + alpha * x[i]
Ema(df, span, n) == EmaOver(df, span, <<df[1].close.num, 1>>, 2, n)

\* a liquidity filter that also drops a trading value equal to the threshold
FilteredOut_AtThreshold(latest, min_val) ==
    latest.close.num * latest.volume <= min_val

\* trading_value = close * volume of the latest bar; trading_value < min_val
FilteredOut(latest, min_val) ==
    latest.close.num * latest.volume < min_val

\* an EMA comparison made on whatever rows there are, with no length guard
EmaBullish_NoLengthGuard(df) ==
    LET e9 == Ema(df, EmaSpan9, Len(df))
        e21 == Ema(df, EmaSpan21, Len(df))
    IN e9[1] * e21[2] > e21[1] * e9[2]

\* ema9 and ema21 are both defined and ema9 > ema21
EmaBullish(df) ==
    /\ Len(df) >= EmaSpan9
    /\ Len(df) >= EmaSpan21
    /\ LET e9 == Ema(df, EmaSpan9, Len(df))
           e21 == Ema(df, EmaSpan21, Len(df))
       IN e9[1] * e21[2] > e21[1] * e9[2]

Outcome(kind, symbol) ==
    [kind |-> kind, symbol |-> symbol, above_ma20 |-> FALSE, above_ma50 |-> FALSE,
     above_ma200 |-> FALSE, ema9_above_ema21 |-> FALSE]

\* a length test that only passes over an empty frame
InsufficientHistory_EmptyOnly(df) == df = <<>>

\* df.empty or len(df) < 20
InsufficientHistory(df) == df = <<>> \/ Len(df) < MinBars

\* analyze_single_symbol after get_ticker_data returned df.  A non-numeric
\* close raises TypeError in the threshold comparison when it is the latest
\* close, and in rolling().mean() wherever it is; the except clause turns
\* the exception into the error dictionary.
AnalyzeSingleSymbol(df, symbol, min_val) ==
    IF InsufficientHistory(df) THEN Outcome("None", symbol)
    ELSE LET latest == df[Len(df)] IN
         IF ~IsNum(latest.close) THEN Outcome("error", symbol)
         ELSE IF FilteredOut(latest, min_val)
         THEN Outcome("filtered_out", symbol)
         ELSE IF \E i \in 1..Len(df) : ~IsNum(df[i].close) THEN Outcome("error", symbol)
         ELSE [kind |-> "indicators", symbol |-> symbol,
               above_ma20 |-> AboveMa(df, MaWindow20),
               above_ma50 |-> AboveMa(df, MaWindow50),
               above_ma200 |-> AboveMa(df, MaWindow200),
               ema9_above_ema21 |-> EmaBullish(df)]

Bit(b) == IF b THEN 1 ELSE 0

\* a filtered branch that counts the symbol in total as well
CountFiltered_InTotal(st, symbol) ==
    [st EXCEPT !.filtered_out_count = @ + 1,
               !.low_value_stocks = Append(@, symbol),
               !.total = @ + 1]

\* result.get('filtered_out'): the symbol is counted and listed as low value
CountFiltered(st, symbol) ==
    [st EXCEPT !.filtered_out_count = @ + 1, !.low_value_stocks = Append(@, symbol)]

\* a loop body that passes over error results, as pre_calculate_breadth passes over exceptions
Accumulate_DropsErrors(st, symbol, res) ==
    IF res.kind = "filtered_out"
    THEN CountFiltered(st, symbol)
    ELSE IF res.kind = "indicators"
    THEN [st EXCEPT !.total = @ + 1, !.analyzed = Append(@, res.symbol)]
    ELSE st

\* The body of the as_completed loop for the future of symbol, whose result is
\* res: None is passed over, a filtered result counted, indicators added up, an
\* error dictionary (or an exception out of future.result) recorded as failed.
Accumulate(st, symbol, res) ==
    IF res.kind = "None" THEN st
    ELSE IF res.kind = "filtered_out"
    THEN CountFiltered(st, symbol)
    ELSE IF res.kind = "indicators"
    THEN [st EXCEPT !.above_ma20 = @ + Bit(res.above_ma20),
                    !.above_ma50 = @ + Bit(res.above_ma50),
                    !.above_ma200 = @ + Bit(res.above_ma200),
                    !.ema9_above_ema21 = @ + Bit(res.ema9_above_ema21),
                    !.total = @ + 1,
                    !.analyzed = Append(@, res.symbol)]
    ELSE [st EXCEPT !.failed = Append(@, symbol)]

\* percentages worked out whatever total is
Percentages_Unguarded(st) ==
    [pct_above_ma20 |-> <<st.above_ma20 * 100, st.total>>,
     pct_above_ma50 |-> <<st.above_ma50 * 100, st.total>>,
     pct_above_ma200 |-> <<st.above_ma200 * 100, st.total>>,
     pct_ema_bullish |-> <<st.ema9_above_ema21 * 100, st.total>>]

\* the percentages, as fractions count * 100 / total, present when total > 0
Percentages(st) ==
    IF st.total > 0
    THEN [pct_above_ma20 |-> <<st.above_ma20 * 100, st.total>>,
          pct_above_ma50 |-> <<st.above_ma50 * 100, st.total>>,
          pct_above_ma200 |-> <<st.above_ma200 * 100, st.total>>,
          pct_ema_bullish |-> <<st.ema9_above_ema21 * 100, st.total>>]
    ELSE [pct_above_ma20 |-> <<>>, pct_above_ma50 |-> <<>>,
          pct_above_ma200 |-> <<>>, pct_ema_bullish |-> <<>>]

\* A price history of n daily bars: close base on every day but the last
History(n, base, lastClose, volume) ==
    [i \in 1..n |-> FrameRow(i * HoursPerDay, IF i = n THEN lastClose ELSE Num(base), volume)]

\* What the cache can hold for a symbol before the analysis: nothing, 19 bars,
\* 20 bars of a liquid symbol above its average, 20 bars of an illiquid symbol,
\* 20 bars whose latest close is not a number
Profiles ==
    << <<>>,
       History(MinBars - 1, 100, Num(110), 30),
       History(MinBars, 100, Num(110), 30),
       History(MinBars, 100, Num(100), 29),
       History(MinBars, 100, TextClose, 30) >>

\* What the gateway answers when the analysis asks for an uncached symbol
BreadthReplies ==
    {TimedOut, Returned(History(2, 100, Num(100), 30)),
     Returned(History(MinBars, 100, Num(110), 30))}

\* The store after each symbol's history was saved at time t by a save_ohlcv
\* call of its own
Install(assign, t) ==
    LET one(i) == SaveOhlcv(EmptyDb, EmptyDb, Tickers[i], Profiles[assign[i]], "1D", t).disk
    IN [ohlcv_data |-> UNION {one(i).ohlcv_data : i \in 1..Len(Tickers)},
        cache_metadata |-> UNION {one(i).cache_metadata : i \in 1..Len(Tickers)}]

\* The symbols are interchangeable: profiles are dealt in non-decreasing order
Assignments ==
    {a \in [1..Len(Tickers) -> 1..Len(Profiles)] :
        \A i \in 1..Len(Tickers), j \in 1..Len(Tickers) : i < j => a[i] <= a[j]}

InitBreadth ==
    /\ now = (MinBars + 1) * HoursPerDay
    /\ \E a \in Assignments : disk = Install(a, now)
    /\ conn = disk
    /\ last = NoCall
    /\ lastPut = EmptyFn
    /\ pc = [t \in Threads |-> "idle"]
    /\ call = [t \in Threads |-> NoCall]
    /\ idx = [t \in Threads |-> 0]
    /\ disk0 = disk
    /\ BreadthIdle
    /\ NoCacheFile

\* analyze_market_breadth(symbols, None, batch_size, min_trading_value) up to
\* the submission of one future per symbol
AnalyzeStart(symbols, batch_size, min_trading_value) ==
    /\ phase = "idle"
    /\ phase' = "running"
    /\ req' = [symbols |-> symbols, min_trading_value |-> min_trading_value,
               batch_size |-> batch_size]
    /\ fut' = [s \in Universe |-> IF s \in symbols THEN "queued" ELSE "none"]
    /\ disk0' = disk
    /\ UNCHANGED <<fileVars, conn, disk, now, last, lastPut, pc, call, idx, elapsed, result, stats, processed>>

Min(a, b) == IF a <= b THEN a ELSE b

\* a free worker of ThreadPoolExecutor(max_workers=min(batch_size, 20)) takes a task
WorkerStart(s) ==
    /\ phase = "running"
    /\ fut[s] = "queued"
    /\ Cardinality({x \in Universe : fut[x] = "running"}) < Min(req.batch_size, MaxWorkers)
    /\ fut' = [fut EXCEPT ![s] = "running"]
    /\ UNCHANGED <<fileVars, conn, disk, now, last, lastPut, pc, call, idx, disk0,
                   phase, req, elapsed, result, stats, processed>>

\* time passes while the worker of s is busy
WorkerTick(s) ==
    /\ phase = "running"
    /\ fut[s] = "running"
    /\ elapsed[s] + TickSeconds <= MaxElapsed
    /\ elapsed' = [elapsed EXCEPT ![s] = @ + TickSeconds]
    /\ UNCHANGED <<fileVars, conn, disk, now, last, lastPut, pc, call, idx, disk0,
                   phase, req, fut, result, stats, processed>>

\* analyze_single_symbol(s, min_val) runs to its return; reply is what the
\* gateway answers if get_ticker_data has to fetch
WorkerFinish(s, reply) ==
    /\ phase = "running"
    /\ fut[s] = "running"
    /\ LET got == GetTickerData(conn, disk, s, reply, now) IN
       /\ conn' = got.conn
       /\ disk' = got.disk
       /\ lastPut' = PutGhost(s, got.saved, got.outcome)
       /\ result' = [result EXCEPT ![s] = AnalyzeSingleSymbol(got.df, s, req.min_trading_value)]
    /\ fut' = [fut EXCEPT ![s] = "done"]
    /\ UNCHANGED <<fileVars, now, last, pc, call, idx, disk0, phase, req, elapsed, stats, processed>>

\* a loop that stops adding results once a symbol has failed
Consume_StopsAtFailure(s) ==
    /\ phase = "running"
    /\ fut[s] = "done"
    /\ s \notin processed
    /\ processed' = processed \cup {s}
    /\ stats' = IF stats.failed # <<>> THEN stats ELSE Accumulate(stats, s, result[s])
    /\ UNCHANGED <<fileVars, conn, disk, now, last, lastPut, pc, call, idx, disk0,
                   phase, req, fut, elapsed, result>>

\* as_completed yields a finished future; future.result(timeout=5) returns at
\* once because the future is done, and the loop body accounts for it
Consume(s) ==
    /\ phase = "running"
    /\ fut[s] = "done"
    /\ s \notin processed
    /\ processed' = processed \cup {s}
    /\ stats' = Accumulate(stats, s, result[s])
    /\ UNCHANGED <<fileVars, conn, disk, now, last, lastPut, pc, call, idx, disk0,
                   phase, req, fut, elapsed, result>>

\* the executor block is left once every future was yielded; the counters and
\* the percentages are added and stats returned
Return ==
    /\ phase = "running"
    /\ processed = req.symbols
    /\ phase' = "returned"
    /\ stats' = stats @@ [filtered_out |-> stats.filtered_out_count] @@ Percentages(stats)
    /\ UNCHANGED <<fileVars, conn, disk, now, last, lastPut, pc, call, idx, disk0,
                   req, fut, elapsed, result, processed>>

\* The Market Overview page after the analysis: the summary when stats and
\* stats['total'] > 0, else the warning "No data available for market breadth
\* analysis"
NoDataWarning(st) == ~(st.total > 0)

\* The symbol lists asked for, and the pool sizes
Requests == {{}, {"AAA", "BBB"}, Universe}
BatchSizes == {1, 10}

NextBreadth ==
    \/ \E symbols \in Requests, b \in BatchSizes : AnalyzeStart(symbols, b, DefaultMinTradingValue)
    \/ \E s \in Universe : WorkerStart(s)
    \/ \E s \in Universe : WorkerTick(s)
    \/ \E s \in Universe, reply \in BreadthReplies : WorkerFinish(s, reply)
    \/ \E s \in Universe : Consume(s)
    \/ Return

SpecBreadth == InitBreadth /\ [][NextBreadth]_vars

\* Histories of the lengths at which an indicator becomes defined and just
\* below them: the closes are 100 up to the last one, which is below, at or
\* above that level; the volumes put the trading value below, at and above
\* the default threshold
HistoryLengths ==
    {MinBars - 1, MinBars, EmaSpan21, MaWindow50 - 1, MaWindow50, MaWindow200 - 1, MaWindow200}
LastCloses == {90, 100, 110}
LastVolumes == {29, 30, 40}

LongHistories ==
    {History(n, 100, Num(c), v) : n \in HistoryLengths, c \in LastCloses, v \in LastVolumes}

\* The store holding exactly the bars of history h for the symbol, with the
\* metadata a save_ohlcv at time t writes for them
StoreOf(symbol, h, t) ==
    [ohlcv_data |-> {DataRow(symbol, "1D", h[i]) : i \in 1..Len(h)},
     cache_metadata |-> {MetaRow(symbol, "1D", h, t)}]

\* AAA has one of the long histories, BBB twenty bars of a liquid symbol above
\* its average or of an illiquid symbol, CCC nothing
InitIndicators ==
    /\ now = (MaWindow200 + 1) * HoursPerDay
    /\ \E h \in LongHistories, g \in {Profiles[3], Profiles[4]} :
          LET a == StoreOf("AAA", h, now)
              b == StoreOf("BBB", g, now)
          IN disk = [ohlcv_data |-> a.ohlcv_data \cup b.ohlcv_data,
                     cache_metadata |-> a.cache_metadata \cup b.cache_metadata]
    /\ conn = disk
    /\ last = NoCall
    /\ lastPut = EmptyFn
    /\ pc = [t \in Threads |-> "idle"]
    /\ call = [t \in Threads |-> NoCall]
    /\ idx = [t \in Threads |-> 0]
    /\ disk0 = disk
    /\ BreadthIdle
    /\ NoCacheFile

\* the analysis of AAA alone and of AAA with BBB
IndicatorRequests == {{"AAA"}, {"AAA", "BBB"}}

NextIndicators ==
    \/ \E symbols \in IndicatorRequests, b \in BatchSizes :
         AnalyzeStart(symbols, b, DefaultMinTradingValue)
    \/ \E s \in Universe : WorkerStart(s)
    \/ \E s \in Universe : WorkerFinish(s, TimedOut)
    \/ \E s \in Universe : Consume(s)
    \/ Return

SpecIndicators == InitIndicators /\ [][NextIndicators]_vars

\* Histories too short to analyze: one bar or nineteen, the latest close a
\* number or not, the trading value below or above the default threshold
ShortLengths == {1, MinBars - 1}
ShortCloses == {Num(100), Num(110), TextClose}
ShortVolumes == {29, 40}

ShortHistories ==
    {History(n, 100, c, v) : n \in ShortLengths, c \in ShortCloses, v \in ShortVolumes}

\* AAA has one of the short histories, BBB and CCC nothing
InitShort ==
    /\ now = (MinBars + 1) * HoursPerDay
    /\ \E h \in ShortHistories : disk = StoreOf("AAA", h, now)
    /\ conn = disk
    /\ last = NoCall
    /\ lastPut = EmptyFn
    /\ pc = [t \in Threads |-> "idle"]
    /\ call = [t \in Threads |-> NoCall]
    /\ idx = [t \in Threads |-> 0]
    /\ disk0 = disk
    /\ BreadthIdle
    /\ NoCacheFile

\* the analysis of the short symbol alone and with an uncached one, for which
\* get_ticker_data asks the gateway
NextShort ==
    \/ \E symbols \in IndicatorRequests, b \in BatchSizes :
         AnalyzeStart(symbols, b, DefaultMinTradingValue)
    \/ \E s \in Universe : WorkerStart(s)
    \/ \E s \in Universe, reply \in BreadthReplies : WorkerFinish(s, reply)
    \/ \E s \in Universe : Consume(s)
    \/ Return

SpecShort == InitShort /\ [][NextShort]_vars

-----------------------------------------------------------------------------
(* Breadth result cache: MarketBreadthCache over market_breadth_cache.json *)

\* Python values found in a stats dictionary.  A number carries its type:
\* json.dump writes int and float (and numpy.float64, a subclass of float)
\* and raises TypeError on numpy.int64.  Fractions are pairs <<num, den>>.
PyInt(n) == [py_int |-> n]
NpInt64(n) == [np_int64 |-> n]
PyFloat(q) == [py_float |-> q]
NpFloat64(q) == [np_float64 |-> q]
PyList(xs) == [py_list |-> xs]
PyBool(b) == [py_bool |-> b]
NpBool(b) == [np_bool |-> b]

IsInteger(c) == "py_int" \in DOMAIN c \/ "np_int64" \in DOMAIN c
IsNumpy(c) == "np_int64" \in DOMAIN c \/ "np_float64" \in DOMAIN c \/ "np_bool" \in DOMAIN c
IntOf(c) == IF "py_int" \in DOMAIN c THEN c.py_int ELSE c.np_int64

\* the value of a number as a fraction
Fraction(c) ==
    IF IsInteger(c) THEN <<IntOf(c), 1>>
    ELSE IF "py_float" \in DOMAIN c THEN c.py_float
    ELSE c.np_float64

\* not pd.isna(ma) and close > ma: the comparison of two numpy.float64, a
\* numpy.bool_, when ma is defined, and the Python False otherwise
Flag(defined, b) == IF defined THEN NpBool(b) ELSE PyBool(FALSE)

\* stats[key] += flag: adding a numpy.bool_ gives a numpy.int64, adding a
\* Python bool keeps the type of the counter
AddFlag(counter, flag) ==
    IF "np_bool" \in DOMAIN flag
    THEN NpInt64(IntOf(counter) + Bit(flag.np_bool))
    ELSE IF "np_int64" \in DOMAIN counter
    THEN NpInt64(IntOf(counter) + Bit(flag.py_bool))
    ELSE PyInt(IntOf(counter) + Bit(flag.py_bool))

\* (stats[key] / stats['total']) * 100
Percent(counter, total) ==
    IF IsNumpy(counter) THEN NpFloat64(<<IntOf(counter) * 100, IntOf(total)>>)
    ELSE PyFloat(<<IntOf(counter) * 100, IntOf(total)>>)

\* The result dictionary of analyze_single_symbol for a symbol with bars
\* cached bars, with the types of its values
IndicatorResult(symbol, bars, a20, a50, a200, ema) ==
    [symbol |-> symbol,
     above_ma20 |-> Flag(bars >= MaWindow20, a20),
     above_ma50 |-> Flag(bars >= MaWindow50, a50),
     above_ma200 |-> Flag(bars >= MaWindow200, a200),
     ema9_above_ema21 |-> Flag(bars >= EmaSpan9 /\ bars >= EmaSpan21, ema)]

\* The counters after the loop body has added the first n indicator results
RECURSIVE AddResults(_, _)
AddResults(results, n) ==
    IF n = 0
    THEN [above_ma20 |-> PyInt(0), above_ma50 |-> PyInt(0), above_ma200 |-> PyInt(0),
          ema9_above_ema21 |-> PyInt(0), total |-> PyInt(0), analyzed |-> PyList(<<>>)]
    ELSE LET st == AddResults(results, n - 1)
             r == results[n]
         IN [above_ma20 |-> AddFlag(st.above_ma20, r.above_ma20),
             above_ma50 |-> AddFlag(st.above_ma50, r.above_ma50),
             above_ma200 |-> AddFlag(st.above_ma200, r.above_ma200),
             ema9_above_ema21 |-> AddFlag(st.ema9_above_ema21, r.ema9_above_ema21),
             total |-> PyInt(IntOf(st.total) + 1),
             analyzed |-> PyList(Append(st.analyzed.py_list, r.symbol))]

\* The dictionary analyze_market_breadth returns when the indicator results
\* arrived in this order, failed and low_value symbols being as given
ReturnedStats(results, failed, low_value) ==
    LET st == AddResults(results, Len(results))
        rest == [failed |-> PyList(failed), filtered_out |-> PyInt(Len(low_value)),
                 low_value_stocks |-> PyList(low_value)]
    IN IF IntOf(st.total) > 0
       THEN st @@ rest @@
            [pct_above_ma20 |-> Percent(st.above_ma20, st.total),
             pct_above_ma50 |-> Percent(st.above_ma50, st.total),
             pct_above_ma200 |-> Percent(st.above_ma200, st.total),
             pct_ema_bullish |-> Percent(st.ema9_above_ema21, st.total)]
       ELSE st @@ rest

\* the same dictionary with every number cast to the Python type
Plain(d) ==
    [k \in DOMAIN d |->
        IF "np_int64" \in DOMAIN d[k] THEN PyInt(d[k].np_int64)
        ELSE IF "np_float64" \in DOMAIN d[k] THEN PyFloat(d[k].np_float64)
        ELSE d[k]]

\* Stats offered to save_stats: what the analysis returns for no analyzed
\* symbol, for one symbol with 20 bars, for two symbols with 20 and 60 bars;
\* and the same as dictionaries of Python numbers
AnalyzerSnapshots ==
    {ReturnedStats(<<>>, <<"CCC">>, <<>>),
     ReturnedStats(<<IndicatorResult("AAA", MinBars, TRUE, FALSE, FALSE, FALSE)>>, <<>>, <<"BBB">>),
     ReturnedStats(<<IndicatorResult("BBB", MinBars, FALSE, FALSE, FALSE, FALSE),
                     IndicatorResult("AAA", 3 * MinBars, TRUE, TRUE, FALSE, TRUE)>>, <<>>, <<>>)}

Snapshots == AnalyzerSnapshots \cup {Plain(d) : d \in AnalyzerSnapshots}

\* JSON documents: a number is written as an integer or as a real
JsonInt(n) == [json_int |-> n]
JsonReal(q) == [json_real |-> q]
JsonArray(xs) == [json_array |-> xs]

\* json.JSONEncoder knows the value
Serializable(c) ==
    \/ "py_int" \in DOMAIN c
    \/ "py_float" \in DOMAIN c
    \/ "np_float64" \in DOMAIN c
    \/ "py_list" \in DOMAIN c

JsonEncode(c) ==
    IF "py_int" \in DOMAIN c THEN JsonInt(c.py_int)
    ELSE IF "py_list" \in DOMAIN c THEN JsonArray(c.py_list)
    ELSE JsonReal(Fraction(c))

\* json.load gives int for an integer, float for a real, list for an array
JsonDecode(j) ==
    IF "json_int" \in DOMAIN j THEN PyInt(j.json_int)
    ELSE IF "json_array" \in DOMAIN j THEN PyList(j.json_array)
    ELSE PyFloat(j.json_real)

\* json.dump(stats): TypeError at the first value the encoder does not know
JsonDump(d) ==
    IF \A k \in DOMAIN d : Serializable(d[k])
    THEN [raised |-> FALSE, text |-> [k \in DOMAIN d |-> JsonEncode(d[k])]]
    ELSE [raised |-> TRUE]

JsonLoad(text) == [k \in DOMAIN text |-> JsonDecode(text[k])]

\* open(cache_file, 'w') has emptied the file and json.dump raised before the
\* document was complete: what is left is not a JSON document
Truncated == [exists |-> TRUE, valid |-> FALSE]

\* datetime.now().isoformat() keeps the microseconds; fromisoformat reads them back
Isoformat(t) == t
FromIsoformat(text) == text

\* save_stats(stats) at time t: the file afterwards and whether the document
\* was written; the exception of a failed write is logged, not raised
SaveStats(file, st, t) ==
    LET dumped == JsonDump(st) IN
    IF dumped.raised
    THEN [file |-> Truncated, written |-> FALSE, raised |-> FALSE]
    ELSE [file |-> [exists |-> TRUE, valid |-> TRUE,
                    timestamp |-> Isoformat(t), stats |-> dumped.text],
          written |-> TRUE, raised |-> FALSE]

None == [hit |-> FALSE]
Some(st) == [hit |-> TRUE, stats |-> st]

\* a load that expires the snapshot already at age max_age_hours
GetCachedStats_ExpiresAtMaxAge(file, max_age_hours, t) ==
    IF ~file.exists THEN None
    ELSE IF ~file.valid THEN None
    ELSE IF t - FromIsoformat(file.timestamp) >= max_age_hours THEN None
    ELSE Some(JsonLoad(file.stats))

\* get_cached_stats(max_age_hours) at time t: None when the file is missing,
\* when json.load raises, when the snapshot is older than max_age_hours
GetCachedStats(file, max_age_hours, t) ==
    IF ~file.exists THEN None
    ELSE IF ~file.valid THEN None
    ELSE IF t - FromIsoformat(file.timestamp) > max_age_hours THEN None
    ELSE Some(JsonLoad(file.stats))

save_stats(st) ==
    LET res == SaveStats(cache_file, st, now) IN
    /\ cache_file' = res.file
    /\ latestSave' = [called |-> TRUE, stats |-> st, at |-> now, written |-> res.written]
    /\ last' = [op |-> "save_stats", raised |-> res.raised]
    /\ UNCHANGED <<conn, disk, now, lastPut, pc, call, idx, disk0, breadthVars>>

get_cached_stats(max_age_hours) ==
    /\ last' = [op |-> "get_cached_stats", max_age_hours |-> max_age_hours, at |-> now,
                result |-> GetCachedStats(cache_file, max_age_hours, now), raised |-> FALSE]
    /\ UNCHANGED <<conn, disk, now, lastPut, pc, call, idx, disk0, breadthVars, fileVars>>

\* max_age_hours asked for: none, the page's one hour, one day, two days
MaxAges == {0, 1, HoursPerDay, 2 * HoursPerDay}

NextCache ==
    \/ \E st \in Snapshots : save_stats(st)
    \/ \E m \in MaxAges : get_cached_stats(m)
    \/ Tick(HoursPerDay)

SpecCache == Init /\ [][NextCache]_vars

-----------------------------------------------------------------------------
(* The Market Overview page: "Analyze Market" with the result cache *)

\* the selectbox "Number of stocks to analyze": a numeric option and "All"
AnalyzeCounts == {"20", "All"}

\* the slider "Min Trading Value (Billion VND)", in million VND: the options
\* 0, 3 and 5 of 0, 1, 3, 5, 10, 20
PageThresholds == {0, DefaultMinTradingValue, 5000}

\* cache.get_cached_stats(max_age_hours=1)
PageMaxAgeHours == 1

\* the hours the clock may advance while the page is open
MaxPageHours == 2

\* if stats: a dictionary is true when it has a key
Truthy(d) == DOMAIN d # {}

\* the orders in which the futures of the page's tickers complete: as
\* submitted, or the last submitted first
Orders == {Tickers, [i \in 1..Len(Tickers) |-> Tickers[Len(Tickers) + 1 - i]]}

\* analyze_market_breadth over a store in which every symbol is cached, the
\* loop body run for the first n futures of the completion order
RECURSIVE AnalyzedInOrder(_, _, _, _)
AnalyzedInOrder(c, order, min_val, n) ==
    IF n = 0 THEN EmptyStats
    ELSE Accumulate(AnalyzedInOrder(c, order, min_val, n - 1), order[n],
                    AnalyzeSingleSymbol(GetOhlcv(c, order[n], "1D"), order[n], min_val))

\* the dictionary that call returns, with the types of its values
BreadthStats(c, order, min_val) ==
    LET st == AnalyzedInOrder(c, order, min_val, Len(order))
        res(s) == LET df == GetOhlcv(c, s, "1D")
                      r == AnalyzeSingleSymbol(df, s, min_val)
                  IN IndicatorResult(s, Len(df), r.above_ma20, r.above_ma50,
                                     r.above_ma200, r.ema9_above_ema21)
    IN ReturnedStats([i \in 1..Len(st.analyzed) |-> res(st.analyzed[i])],
                     st.failed, st.low_value_stocks)

\* stats = None; if analyze_count == "All": stats = cache.get_cached_stats(max_age_hours=1)
PageCacheLookup(file, analyze_count, min_trading_value, t) ==
    IF analyze_count = "All"
    THEN GetCachedStats(file, PageMaxAgeHours, t)
    ELSE None

\* One run of the page script after "Analyze Market" was clicked: the cached
\* aggregate for "All" when there is one, else a fresh analysis with the
\* slider's threshold, saved when the option is "All"; then the summary or
\* the warning.  The tickers are the three of the list, all of them cached.
analyze_market(analyze_count, min_trading_value, order) ==
    LET cached == PageCacheLookup(cache_file, analyze_count, min_trading_value, now)
        from_cache == cached.hit /\ Truthy(cached.stats)
        fresh == BreadthStats(conn, order, min_trading_value)
        saves == ~from_cache /\ analyze_count = "All" /\ Truthy(fresh)
        res == SaveStats(cache_file, fresh, now)
        shown == IF from_cache THEN cached.stats ELSE fresh
    IN /\ Idle
       /\ cache_file' = IF saves THEN res.file ELSE cache_file
       /\ latestSave' = IF saves
                        THEN [called |-> TRUE, stats |-> fresh, at |-> now,
                              written |-> res.written,
                              min_trading_value |-> min_trading_value,
                              symbols |-> Universe]
                        ELSE latestSave
       /\ last' = [op |-> "analyze_market", analyze_count |-> analyze_count,
                   min_trading_value |-> min_trading_value, symbols |-> Universe,
                   at |-> now, from_cache |-> from_cache, stats |-> shown,
                   warning |-> ~(IntOf(shown.total) > 0)]
       /\ UNCHANGED <<conn, disk, now, lastPut, pc, call, idx, disk0, breadthVars>>

\* an hour passes
Elapse ==
    /\ now + 1 <= (MinBars + 1) * HoursPerDay + MaxPageHours
    /\ now' = now + 1
    /\ UNCHANGED <<conn, disk, last, lastPut, pc, call, idx, disk0, breadthVars, fileVars>>

\* AAA has twenty bars of a liquid symbol, BBB twenty bars of a liquid or of an
\* illiquid symbol, CCC nineteen bars; no result was cached yet
InitPage ==
    /\ now = (MinBars + 1) * HoursPerDay
    /\ \E b \in {3, 4} : disk = Install(<<3, b, 2>>, now)
    /\ conn = disk
    /\ last = NoCall
    /\ lastPut = EmptyFn
    /\ pc = [t \in Threads |-> "idle"]
    /\ call = [t \in Threads |-> NoCall]
    /\ idx = [t \in Threads |-> 0]
    /\ disk0 = disk
    /\ BreadthIdle
    /\ NoCacheFile

NextPage ==
    \/ \E a \in AnalyzeCounts, m \in PageThresholds, o \in Orders : analyze_market(a, m, o)
    \/ Elapse

SpecPage == InitPage /\ [][NextPage]_vars

-----------------------------------------------------------------------------
(* Properties of the cache store *)

\* C1: the metadata record_count of every (symbol, resolution) pair equals the
\* number of bars stored for that pair, after any sequence of save_ohlcv and
\* clear_cache calls.
C1_RecordCountEqualsStored ==
    \A m \in disk.cache_metadata :
        m.record_count = Cardinality(StoredRows(disk, m.symbol, m.resolution))

\* The committed content after save_ohlcv call c runs alone on committed content d
RunAlone(d, c) == SaveOhlcv(d, d, c.symbol, c.df, c.resolution, now).disk

SerialOutcomes ==
    {disk0, RunAlone(disk0, call[1]), RunAlone(disk0, call[2]),
     RunAlone(RunAlone(disk0, call[1]), call[2]),
     RunAlone(RunAlone(disk0, call[2]), call[1])}

\* C4: whatever two concurrent save_ohlcv calls for one symbol have committed
\* is what the two calls produce in some serial order (or a prefix of it).
C4_ConcurrentPutsSerializable == disk \in SerialOutcomes

\* C5: a save_ohlcv call that fails after upserting rows persists nothing: the
\* committed content and the connection's view are those before the call.
C5_FailedPutLeavesStore ==
    \A t \in Threads :
        (pc[t] = "idle" /\ call[t].op = "save_ohlcv" /\ call[t].outcome = "rolled_back")
            => (disk = disk0 /\ conn = disk0)

C5_Witness ==
    /\ pc[1] = "idle" /\ call[1].op = "save_ohlcv"
    /\ call[1].outcome = "rolled_back"
    /\ idx[1] >= 1
    /\ disk0.ohlcv_data # {}

RecordCounts(d) == {<<m.symbol, m.resolution, m.record_count>> : m \in d.cache_metadata}

\* C9: a save_ohlcv call with the arguments of the call before it leaves the
\* stored bars and every record_count as the first call left them.
C9_PutTwiceSameAsOnce ==
    (pc[1] = "idle" /\ call[1].op = "save_ohlcv" /\ call[1].repeat /\ call[1].df # <<>>)
        => (/\ disk.ohlcv_data = disk0.ohlcv_data
            /\ RecordCounts(disk) = RecordCounts(disk0))

C9_Witness ==
    /\ pc[1] = "idle" /\ call[1].op = "save_ohlcv"
    /\ call[1].repeat /\ call[1].outcome = "committed"
    /\ Len(call[1].df) = 2
    /\ RecordCounts(disk) # {}

\* C10: no two stored rows share (symbol, date, resolution), and the bar
\* stored under a key is the one the latest committed save_ohlcv holding that
\* key wrote.
C10_OneBarPerKeyLatestWins ==
    /\ \A r1, r2 \in disk.ohlcv_data : RowKey(r1) = RowKey(r2) => r1 = r2
    /\ {RowKey(r) : r \in disk.ohlcv_data} = DOMAIN lastPut
    /\ \A r \in disk.ohlcv_data : Bar(r) = lastPut[RowKey(r)].bar

C10_Witness ==
    \E r \in disk.ohlcv_data :
        /\ RowKey(r) \in DOMAIN lastPut
        /\ lastPut[RowKey(r)].replaced
        /\ Bar(r) = lastPut[RowKey(r)].bar

UpdateOps == {"DailyOHLCVUpdater.update_ticker", "OHLCVUpdater.update_ticker"}

\* C8: when the gateway raises or returns nothing during an update_ticker call,
\* the call leaves the stored bars and metadata as they were and returns its
\* failure outcome ((None, "Failed"), respectively False) instead of raising.
C8_GatewayFailureLeavesCache ==
    [][(last'.op \in UpdateOps /\ last'.called /\ last'.gateway_failed)
          => (disk' = disk /\ conn' = conn /\ last'.failure)]_vars

C8_Witness ==
    /\ last.op \in UpdateOps /\ last.called /\ last.gateway_failed /\ last.failure
    /\ disk.ohlcv_data # {} /\ disk.cache_metadata # {}

Range(f) == {f[i] : i \in DOMAIN f}
Failed == Range(stats.failed)
Analyzed == Range(stats.analyzed)
Filtered == Range(stats.low_value_stocks)
Excluded == {s \in req.symbols : result[s].kind = "None"}

\* C2: when exactly one of the N symbols raises inside analyze_single_symbol
\* and every other one is analyzable, the call returns, the raising symbol is
\* in failed and total is N - 1.
C2_OneFailureIsIsolated ==
    (phase = "returned" /\ req.symbols # {}) =>
        \A k \in req.symbols :
            (/\ result[k].kind = "error"
             /\ \A s \in req.symbols \ {k} : result[s].kind = "indicators")
            => (/\ k \in Failed
                /\ stats.total = Cardinality(req.symbols) - 1
                /\ Analyzed = req.symbols \ {k})

C2_Witness ==
    /\ phase = "returned"
    /\ Cardinality(req.symbols) = 3
    /\ \E k \in req.symbols :
        /\ result[k].kind = "error"
        /\ \A s \in req.symbols \ {k} : result[s].kind = "indicators"
        /\ Failed = {k}
    /\ stats.total = 2

\* C3: when analyze_market_breadth returns, every requested symbol is in
\* exactly one of analyzed, excluded for short history, filtered out, failed,
\* and total = |symbols| - excluded - filtered out - failed.
C3_OutcomesPartitionSymbols ==
    phase = "returned" =>
        /\ Analyzed \cup Excluded \cup Filtered \cup Failed = req.symbols
        /\ Analyzed \cap Excluded = {} /\ Analyzed \cap Filtered = {}
        /\ Analyzed \cap Failed = {} /\ Excluded \cap Filtered = {}
        /\ Excluded \cap Failed = {} /\ Filtered \cap Failed = {}
        /\ Len(stats.analyzed) = Cardinality(Analyzed)
        /\ Len(stats.failed) = Cardinality(Failed)
        /\ stats.filtered_out = Cardinality(Filtered)
        /\ stats.total = Cardinality(Analyzed)
        /\ stats.total = Cardinality(req.symbols) - Cardinality(Excluded)
                            - stats.filtered_out - Len(stats.failed)

C3_Witness ==
    /\ phase = "returned"
    /\ Cardinality(req.symbols) = 3
    /\ stats.filtered_out = 1
    /\ Len(stats.failed) = 1
    /\ stats.total = 1

\* C6 as claimed: an analyze_market_breadth call leaves stored bars and
\* metadata exactly as they were when it was called.
C6_AnalyzerNeverWrites ==
    phase \in {"running", "returned"} => (disk = disk0 /\ conn = disk0)

SymbolContent(d, s) ==
    [ohlcv_data |-> {r \in d.ohlcv_data : r.symbol = s},
     cache_metadata |-> {m \in d.cache_metadata : m.symbol = s}]

\* C6 amended: the call changes nothing for a symbol that had cached daily
\* bars when it was called, and nothing for a symbol it was not asked about;
\* only a requested symbol without cached daily bars can get bars stored.
C6_AnalyzerWritesOnlyUncached ==
    phase \in {"running", "returned"} =>
        \A s \in Universe :
            (s \notin req.symbols \/ StoredRows(disk0, s, "1D") # {})
                => (SymbolContent(disk, s) = SymbolContent(disk0, s)
                    /\ SymbolContent(conn, s) = SymbolContent(disk0, s))

C6_Witness ==
    /\ phase = "returned"
    /\ \E s \in req.symbols : StoredRows(disk0, s, "1D") = {} /\ StoredRows(disk, s, "1D") # {}
    /\ \E s \in req.symbols : StoredRows(disk0, s, "1D") # {} /\ result[s].kind = "indicators"

\* C7 as claimed: a symbol whose computation took longer than the 5 second
\* wait is in failed when the call returns.
C7_SlowSymbolIsFailed ==
    phase = "returned" =>
        \A s \in req.symbols : elapsed[s] > TimeoutSeconds => s \in Failed

\* Python's == on two stats dictionaries: same keys, numbers equal by value
\* whatever their type, lists equal
ValueEq(a, b) ==
    IF "py_list" \in DOMAIN a \/ "py_list" \in DOMAIN b THEN a = b
    ELSE Fraction(a)[1] * Fraction(b)[2] = Fraction(b)[1] * Fraction(a)[2]

DictEq(a, b) ==
    /\ DOMAIN a = DOMAIN b
    /\ \A k \in DOMAIN a : ValueEq(a[k], b[k])

\* C11: get_cached_stats returns the stored snapshot when one is readable and
\* now - timestamp <= max_age, returns None otherwise, and never raises; a
\* missing or unreadable file is a miss.
C11_LoadWithinMaxAge ==
    last.op = "get_cached_stats" =>
        /\ ~last.raised
        /\ last.result.hit <=>
              (/\ cache_file.exists
               /\ cache_file.valid
               /\ last.at - cache_file.timestamp <= last.max_age_hours)
        /\ last.result.hit => last.result.stats = JsonLoad(cache_file.stats)

C11_Witness ==
    /\ last.op = "get_cached_stats"
    /\ last.result.hit
    /\ last.max_age_hours > 0
    /\ last.at - cache_file.timestamp = last.max_age_hours

\* C12: a load within max_age of the latest save_stats call returns the stats
\* passed to that call.
C12_LoadReturnsLatestSave ==
    (/\ last.op = "get_cached_stats"
     /\ latestSave.called
     /\ last.at - latestSave.at <= last.max_age_hours)
    => (last.result.hit /\ DictEq(last.result.stats, latestSave.stats))

\* C13: is_cache_valid answers true exactly when a metadata row exists for
\* (symbol, resolution) and its last_update is less than max_age_hours old;
\* it answers false, without raising, when there is no row, and it answers
\* false for every last_update when max_age_hours is 0.
C13_ValidIffMetadataYoungEnough ==
    last.op = "is_cache_valid" =>
        /\ ~last.raised
        /\ last.valid <=>
              \E m \in conn.cache_metadata :
                  /\ m.symbol = last.symbol
                  /\ m.resolution = last.resolution
                  /\ last.at - m.last_update < last.max_age_hours
        /\ last.max_age_hours = 0 => ~last.valid

C13_Witness ==
    /\ last.op = "is_cache_valid"
    /\ ~last.valid
    /\ \E m \in conn.cache_metadata :
          /\ m.symbol = last.symbol /\ m.resolution = last.resolution
          /\ last.at - m.last_update = last.max_age_hours
    /\ \E m \in conn.cache_metadata : m.symbol # last.symbol

\* The day of the latest bar stored for a symbol, at any resolution
BarDays(d, symbol) == {r.date : r \in {x \in d.ohlcv_data : x.symbol = symbol}}

\* the symbols the updaters are run for
UpdatedSymbols == {"AAA"}

NotCalledStoreKept == ~last'.called /\ disk' = disk /\ conn' = conn

\* a step is a DailyOHLCVUpdater.update_ticker(s) call, whatever the vendors answer
DailyCall(s) ==
    \E vn \in Replies :
        \E tc \in (IF IsRateLimit(vn) THEN Replies ELSE {TimedOut}) :
            daily_update_ticker(s, vn, tc)

\* a step is an OHLCVUpdater.update_ticker(s) call with force_update left False
UpdaterCall(s) == \E reply \in Replies : update_ticker(s, reply, FALSE)

\* C14 as claimed: an update_ticker call for a symbol whose metadata was
\* last updated at most one day ago does not call the gateway and leaves the
\* stored bars and metadata unchanged.
C14_UpdatedWithinADaySkips ==
    [][\A s \in UpdatedSymbols :
         ((\E m \in disk.cache_metadata :
              m.symbol = s /\ now - m.last_update <= FreshDays * HoursPerDay)
          /\ (DailyCall(s) \/ UpdaterCall(s)))
         => NotCalledStoreKept]_vars

\* C14 amended: DailyOHLCVUpdater.update_ticker skips the fetch when now is
\* less than two days after midnight of the latest cached bar's date, and
\* OHLCVUpdater.update_ticker without force_update skips it when the daily
\* metadata was updated less than 24 hours ago; a skipping call does not call
\* the gateway and leaves stored bars and metadata unchanged.
C14_FreshCacheSkipsFetch ==
    [][\A s \in UpdatedSymbols :
         /\ (/\ BarDays(disk, s) # {}
             /\ now < (MaxOf(BarDays(disk, s)) + FreshDays + 1) * HoursPerDay
             /\ DailyCall(s))
            => NotCalledStoreKept
         /\ (/\ \E m \in disk.cache_metadata :
                   /\ m.symbol = s /\ m.resolution = "1D"
                   /\ now - m.last_update < ValidHours
             /\ UpdaterCall(s))
            => NotCalledStoreKept]_vars

C14_Witness ==
    /\ last.op = "DailyOHLCVUpdater.update_ticker"
    /\ ~last.called
    /\ last.source = "Already up-to-date"
    /\ now = (MaxOf(BarDays(disk, last.symbol)) + FreshDays) * HoursPerDay

Delivered(vn, tc) ==
    IF vn.kind = "frame" THEN vn.df
    ELSE IF IsRateLimit(vn) /\ tc.kind = "frame" THEN tc.df
    ELSE <<>>

\* C16: when nothing is cached for the symbol, DailyOHLCVUpdater.update_ticker
\* asks for the last 365 * 5 days, every one of the N bars the gateway returns
\* is in the store afterwards, and the symbol's metadata has record_count = N.
C16_FirstFetchStoresFullWindow ==
    [][\A s \in UpdatedSymbols :
         BarDays(disk, s) = {} =>
         \A vn \in Replies :
         \A tc \in (IF IsRateLimit(vn) THEN Replies ELSE {TimedOut}) :
         (/\ Delivered(vn, tc) # <<>>
          /\ daily_update_ticker(s, vn, tc))
         => LET df == Delivered(vn, tc) IN
            /\ last'.request = <<(now \div HoursPerDay) - FullDays, now \div HoursPerDay>>
            /\ \A i \in 1..Len(df) :
                  \E r \in disk'.ohlcv_data :
                      r.symbol = s /\ r.resolution = "1D" /\ r.date = df[i].date \div HoursPerDay
            /\ (\A i, j \in 1..Len(df) :
                    i # j => df[i].date \div HoursPerDay # df[j].date \div HoursPerDay)
                 => Cardinality(StoredRows(disk', s, "1D")) = Len(df)
            /\ \E m \in disk'.cache_metadata :
                  m.symbol = s /\ m.resolution = "1D" /\ m.record_count = Len(df)
            /\ last'.records = Len(df)]_vars

C16_Witness ==
    /\ last.op = "DailyOHLCVUpdater.update_ticker"
    /\ last.request[1] = (now \div HoursPerDay) - FullDays
    /\ last.records = MaxLen
    /\ Cardinality(StoredRows(disk, last.symbol, "1D")) = MaxLen
    /\ \E m \in disk.cache_metadata : m.symbol = last.symbol /\ m.record_count = MaxLen

\* the metadata of the symbol counts another number of bars than are stored
Diverged(d, s) ==
    \E m \in d.cache_metadata :
        m.symbol = s /\ m.record_count # Cardinality(StoredRows(d, s, m.resolution))

\* C17 as claimed: when the record_count of a symbol differs from the number
\* of bars stored for it, the next update_ticker call for the symbol fetches
\* the full window: it neither skips nor asks for the incremental window.
C17_DivergenceForcesFullRefetch ==
    [][\A s \in UpdatedSymbols :
         /\ (Diverged(disk, s) /\ DailyCall(s))
            => (last'.called
                /\ last'.request = <<(now \div HoursPerDay) - FullDays, now \div HoursPerDay>>)
         /\ (Diverged(disk, s) /\ UpdaterCall(s))
            => (last'.called
                /\ last'.request = <<(now \div HoursPerDay) - DaysBack, now \div HoursPerDay>>)]_vars

-----------------------------------------------------------------------------
(* The indicators of analyze_market_breadth, read off the daily bars that
   were cached when the call was made *)

\* the daily bars of a symbol cached when the call was made
CachedBars(symbol) ==
    {r \in disk0.ohlcv_data : r.symbol = symbol /\ r.resolution = "1D"}

\* df.iloc[-1]: the bar with the latest date
LatestBar(symbol) ==
    CHOOSE r \in CachedBars(symbol) : \A q \in CachedBars(symbol) : q.date <= r.date

\* the k latest bars
LatestBars(symbol, k) ==
    {r \in CachedBars(symbol) :
        Cardinality({q \in CachedBars(symbol) : q.date > r.date}) < k}

\* the sum of the closes of the k latest bars: the size of the bag that holds
\* each of these bars as many times as its close
SumOfLatestCloses(symbol, k) ==
    BagCardinality([r \in LatestBars(symbol, k) |-> r.close.num])

\* at least 20 bars are cached and every close is a number
Analyzable(symbol) ==
    /\ Cardinality(CachedBars(symbol)) >= MinBars
    /\ \A r \in CachedBars(symbol) : IsNum(r.close)

TradingValue(symbol) == LatestBar(symbol).close.num * LatestBar(symbol).volume

Windows == {MaWindow20, MaWindow50, MaWindow200}

\* result['above_ma<k>'] of an analyzed symbol, and the counter it is added to
AboveFlag(symbol, k) ==
    IF k = MaWindow20 THEN result[symbol].above_ma20
    ELSE IF k = MaWindow50 THEN result[symbol].above_ma50
    ELSE result[symbol].above_ma200

AboveCount(k) ==
    IF k = MaWindow20 THEN stats.above_ma20
    ELSE IF k = MaWindow50 THEN stats.above_ma50
    ELSE stats.above_ma200

\* C18: when analyze_market_breadth returns, a requested symbol with at least
\* 20 bars is in the filtered list iff latest close * latest volume is below
\* min_trading_value (not when it equals it); a filtered symbol is in neither
\* analyzed nor failed, and total and the four above-counts count analyzed
\* symbols only.
C18_FilteredIffBelowThreshold ==
    phase = "returned" =>
        /\ \A s \in req.symbols :
              Analyzable(s) =>
                  /\ s \in Filtered <=> TradingValue(s) < req.min_trading_value
                  /\ s \in Filtered => s \notin Analyzed /\ s \notin Failed
        /\ stats.filtered_out = Cardinality(Filtered)
        /\ stats.total = Cardinality(Analyzed \ Filtered)
        /\ \A k \in Windows :
              AboveCount(k) = Cardinality({s \in Analyzed \ Filtered : AboveFlag(s, k)})
        /\ stats.ema9_above_ema21 =
              Cardinality({s \in Analyzed \ Filtered : result[s].ema9_above_ema21})

\* a call returned with one symbol filtered for a trading value below the
\* threshold and one analyzed whose trading value equals the threshold
C18_Witness ==
    /\ phase = "returned"
    /\ \E s \in req.symbols :
          /\ Analyzable(s)
          /\ TradingValue(s) < req.min_trading_value
          /\ s \in Filtered
    /\ \E s \in req.symbols :
          /\ Analyzable(s)
          /\ TradingValue(s) = req.min_trading_value
          /\ s \in Analyzed
    /\ stats.total = Cardinality(req.symbols) - 1

\* C19: for every analyzed symbol and every k in {20, 50, 200}, above_ma<k> is
\* true only if at least k bars are cached and the latest close is strictly
\* greater than the mean of the k latest closes; a close equal to that mean
\* is not counted as above.
C19_AboveMaIsStrict ==
    phase = "returned" =>
        \A s \in Analyzed : \A k \in Windows :
            /\ AboveFlag(s, k) =>
                  /\ Cardinality(CachedBars(s)) >= k
                  /\ k * LatestBar(s).close.num > SumOfLatestCloses(s, k)
            /\ (/\ Cardinality(CachedBars(s)) >= k
                /\ k * LatestBar(s).close.num = SumOfLatestCloses(s, k))
               => (~AboveFlag(s, k) /\ AboveCount(k) < Cardinality(Analyzed))

\* a call returned with an analyzed symbol of 200 bars whose close equals each
\* of its three moving averages and counts as above none, and an analyzed
\* symbol that is above its MA20
C19_Witness ==
    /\ phase = "returned"
    /\ \E s \in Analyzed :
          /\ Cardinality(CachedBars(s)) >= MaWindow200
          /\ \A k \in Windows :
                /\ k * LatestBar(s).close.num = SumOfLatestCloses(s, k)
                /\ ~AboveFlag(s, k)
    /\ \E s \in Analyzed :
          /\ MaWindow20 * LatestBar(s).close.num > SumOfLatestCloses(s, MaWindow20)
          /\ AboveFlag(s, MaWindow20)
    /\ stats.above_ma20 = 1

\* C20: a requested symbol with n >= 20 cached bars that passes the liquidity
\* filter is analyzed and counted in total whatever n is; its above_ma50 is
\* false when n < 50, its above_ma200 false when n < 200, its
\* ema9_above_ema21 false when n < 21; and every percentage is the count of
\* true flags over total, the number of analyzed symbols.
C20_UndefinedIndicatorsCountAsFalse ==
    phase = "returned" =>
        /\ \A s \in req.symbols :
              (Analyzable(s) /\ TradingValue(s) >= req.min_trading_value) =>
                  LET n == Cardinality(CachedBars(s)) IN
                  /\ s \in Analyzed
                  /\ result[s].kind = "indicators"
                  /\ n < MaWindow50 => ~result[s].above_ma50
                  /\ n < MaWindow200 => ~result[s].above_ma200
                  /\ n < EmaSpan21 => ~result[s].ema9_above_ema21
        /\ stats.total = Cardinality(Analyzed)
        /\ stats.total > 0 =>
              /\ stats.pct_above_ma20 = <<stats.above_ma20 * 100, Cardinality(Analyzed)>>
              /\ stats.pct_above_ma50 = <<stats.above_ma50 * 100, Cardinality(Analyzed)>>
              /\ stats.pct_above_ma200 = <<stats.above_ma200 * 100, Cardinality(Analyzed)>>
              /\ stats.pct_ema_bullish = <<stats.ema9_above_ema21 * 100, Cardinality(Analyzed)>>

\* a call returned with a single analyzed symbol of exactly 20 bars closing
\* above its MA20: it is the whole denominator, above_ma20 is 100 percent and
\* the three undefined indicators are 0 percent
C20_Witness ==
    /\ phase = "returned"
    /\ \E s \in req.symbols :
          /\ req.symbols = {s}
          /\ Cardinality(CachedBars(s)) = MinBars
          /\ Analyzed = {s}
          /\ result[s].above_ma20
    /\ stats.total = 1
    /\ stats.pct_above_ma20 = <<100, 1>>
    /\ stats.pct_above_ma50 = <<0, 1>>
    /\ stats.pct_above_ma200 = <<0, 1>>
    /\ stats.pct_ema_bullish = <<0, 1>>

-----------------------------------------------------------------------------
(* Insufficient history *)

\* the symbol is in no list and was given no indicators
LeftOut(s) ==
    /\ result[s].kind = "None"
    /\ s \notin Analyzed /\ s \notin Failed /\ s \notin Filtered

\* total and the four counters count the analyzed symbols only
CountsAreOfAnalyzed ==
    /\ stats.total = Cardinality(Analyzed)
    /\ \A k \in Windows : AboveCount(k) = Cardinality({s \in Analyzed : AboveFlag(s, k)})
    /\ stats.ema9_above_ema21 = Cardinality({s \in Analyzed : result[s].ema9_above_ema21})
    /\ stats.filtered_out = Cardinality(Filtered)

\* C21 as claimed: a requested symbol that had fewer than 20 daily bars cached
\* (none included) when analyze_market_breadth was called is in neither
\* analyzed, failed nor filtered when it returns, and total and the counters
\* count analyzed symbols only.
C21_ShortCachedHistoryIsExcluded ==
    phase = "returned" =>
        /\ \A s \in req.symbols :
              Cardinality(StoredRows(disk0, s, "1D")) < MinBars => LeftOut(s)
        /\ CountsAreOfAnalyzed

\* C21 amended: a requested symbol for which get_ticker_data yields fewer than
\* 20 daily bars (the cached bars when there are some, otherwise the bars the
\* fetch on a miss stored) is in neither analyzed, failed nor filtered, whatever
\* its latest close and volume, and total and the counters count analyzed
\* symbols only.
C21_ShortHistoryIsExcluded ==
    phase = "returned" =>
        /\ \A s \in req.symbols :
              Cardinality(StoredRows(disk, s, "1D")) < MinBars => LeftOut(s)
        /\ \A s \in req.symbols :
              (/\ StoredRows(disk0, s, "1D") # {}
               /\ Cardinality(StoredRows(disk0, s, "1D")) < MinBars) => LeftOut(s)
        /\ CountsAreOfAnalyzed

\* a call returned with a 19-bar symbol whose trading value is below the
\* threshold left out, next to a symbol that was uncached, fetched and analyzed
C21_Witness ==
    /\ phase = "returned"
    /\ \E s \in req.symbols :
          /\ Cardinality(StoredRows(disk0, s, "1D")) = MinBars - 1
          /\ IsNum(LatestBar(s).close)
          /\ TradingValue(s) < req.min_trading_value
          /\ LeftOut(s)
    /\ \E s \in req.symbols :
          /\ StoredRows(disk0, s, "1D") = {}
          /\ s \in Analyzed
    /\ stats.total = 1

-----------------------------------------------------------------------------
(* Order of completion *)

\* what analyze_single_symbol returns for a symbol on the bars cached when
\* analyze_market_breadth was called
OutcomeAtCall(s) ==
    AnalyzeSingleSymbol(GetOhlcv(disk0, s, "1D"), s, req.min_trading_value)

IndicatorsAtCall == {s \in req.symbols : OutcomeAtCall(s).kind = "indicators"}

\* C22: when every requested symbol has cached bars, so that the cache content
\* fixes each symbol's result, the counts analyze_market_breadth returns are
\* those of the set of per-symbol results, in whatever order the workers
\* finished and the loop took their results.
C22_CountsIndependentOfOrder ==
    (phase = "returned" /\ \A s \in req.symbols : StoredRows(disk0, s, "1D") # {}) =>
        /\ stats.total = Cardinality(IndicatorsAtCall)
        /\ stats.above_ma20 = Cardinality({s \in IndicatorsAtCall : OutcomeAtCall(s).above_ma20})
        /\ stats.above_ma50 = Cardinality({s \in IndicatorsAtCall : OutcomeAtCall(s).above_ma50})
        /\ stats.above_ma200 = Cardinality({s \in IndicatorsAtCall : OutcomeAtCall(s).above_ma200})
        /\ stats.ema9_above_ema21 =
              Cardinality({s \in IndicatorsAtCall : OutcomeAtCall(s).ema9_above_ema21})
        /\ stats.filtered_out =
              Cardinality({s \in req.symbols : OutcomeAtCall(s).kind = "filtered_out"})
        /\ Len(stats.failed) =
              Cardinality({s \in req.symbols : OutcomeAtCall(s).kind = "error"})

\* a call over three cached symbols returned after the failing symbol, the
\* last one submitted, was taken first and the two analyzed symbols in the
\* reverse of the order they were submitted in
C22_Witness ==
    /\ phase = "returned"
    /\ req.symbols = Universe
    /\ \A s \in req.symbols : StoredRows(disk0, s, "1D") # {}
    /\ stats.analyzed = <<Tickers[2], Tickers[1]>>
    /\ stats.failed = <<Tickers[3]>>
    /\ stats.total = 2
    /\ stats.above_ma20 = 2

-----------------------------------------------------------------------------
(* Nothing to analyze *)

PercentageKeys == {"pct_above_ma20", "pct_above_ma50", "pct_above_ma200", "pct_ema_bullish"}

\* C23: when analyze_market_breadth was asked about no symbol, or every
\* requested symbol failed, it returns stats with total 0, every counter 0 and
\* no percentage, and the page shows its no-data warning in place of the
\* summary.
C23_NothingAnalyzedIsReported ==
    (phase = "returned" /\ \A s \in req.symbols : s \in Failed) =>
        /\ stats.total = 0
        /\ stats.analyzed = <<>>
        /\ stats.above_ma20 = 0 /\ stats.above_ma50 = 0
        /\ stats.above_ma200 = 0 /\ stats.ema9_above_ema21 = 0
        /\ Len(stats.failed) = Cardinality(req.symbols)
        /\ \A k \in PercentageKeys : stats[k] = <<>>
        /\ NoDataWarning(stats)

\* a call over three symbols returned with all three failed
C23_Witness ==
    /\ phase = "returned"
    /\ req.symbols = Universe
    /\ Failed = Universe
    /\ stats.total = 0
    /\ stats.pct_above_ma20 = <<>>
    /\ NoDataWarning(stats)

-----------------------------------------------------------------------------
(* Reading the cache *)

\* the stored bars the last get_ohlcv call asked for
AskedRows ==
    {r \in conn.ohlcv_data :
        /\ r.symbol = last.symbol /\ r.resolution = last.resolution
        /\ "day" \in DOMAIN last.start_date => r.date >= last.start_date.day
        /\ "day" \in DOMAIN last.end_date => r.date <= last.end_date.day}

\* C24: a get_ohlcv call for a symbol, resolution and date bounds with no
\* stored bar in them raises nothing and returns the empty result; a call
\* with stored bars in them returns exactly these, in date order.
C24_CacheMissIsEmptyNotError ==
    last.op = "get_ohlcv" =>
        /\ ~last.raised
        /\ AskedRows = {} => last.df = <<>>
        /\ Range(last.df) = AskedRows
        /\ Len(last.df) = Cardinality(AskedRows)
        /\ \A i \in 1..(Len(last.df) - 1) : last.df[i].date < last.df[i + 1].date

\* a read of a symbol that has bars, with bounds that hold none of them,
\* returned the empty result
C24_Witness ==
    /\ last.op = "get_ohlcv"
    /\ StoredRows(conn, last.symbol, last.resolution) # {}
    /\ "day" \in DOMAIN last.start_date
    /\ AskedRows = {}
    /\ last.df = <<>>
    /\ ~last.raised

-----------------------------------------------------------------------------
(* The overlap window of the daily updater *)

\* row i is the last bar of its day in the frame, the one an upsert of the
\* whole frame leaves stored
LastOfItsDay(df, i) ==
    \A j \in (i + 1)..Len(df) : StrfDate(df[j].date) # StrfDate(df[i].date)

\* C25 as claimed: when bars are cached and the latest is two days old or
\* older, every bar the gateway returns to DailyOHLCVUpdater.update_ticker is
\* stored afterwards with the fetched values, a bar of an already cached date
\* included.
C25_OverlapBarsAreUpserted ==
    [][\A s \in UpdatedSymbols :
         (/\ BarDays(disk, s) # {}
          /\ now >= (MaxOf(BarDays(disk, s)) + FreshDays + 1) * HoursPerDay)
         => \A vn \in Replies :
            \A tc \in (IF IsRateLimit(vn) THEN Replies ELSE {TimedOut}) :
            (/\ Delivered(vn, tc) # <<>>
             /\ daily_update_ticker(s, vn, tc))
            => LET df == Delivered(vn, tc) IN
               \A i \in 1..Len(df) :
                   LastOfItsDay(df, i) => DataRow(s, "1D", df[i]) \in disk'.ohlcv_data]_vars

-----------------------------------------------------------------------------
(* Outcomes of one update attempt *)

\* the outcomes of the last update_ticker call: bars were saved; the fetch was
\* skipped for a fresh cache; the failure outcome was returned
Merged == last.called /\ last.records > 0 /\ ~last.failure
SkippedFresh == ~last.called /\ ~last.failure
FailedOutcome == last.failure

\* C26 as claimed: an update_ticker call ends in exactly one of Merged,
\* SkippedFresh and Failed, and asks at most one gateway request.
C26_OneOutcomeOneRequest ==
    last.op \in UpdateOps =>
        /\ Cardinality({o \in {"Merged", "SkippedFresh", "Failed"} :
              \/ o = "Merged" /\ Merged
              \/ o = "SkippedFresh" /\ SkippedFresh
              \/ o = "Failed" /\ FailedOutcome}) = 1
        /\ Cardinality(last.sources) <= 1

-----------------------------------------------------------------------------
(* A save_stats call that fails *)

\* C28 as claimed: a save_stats call whose snapshot cannot be serialized
\* leaves the result cache as it was, so that every later get_cached_stats
\* answers what it would have answered from the previous snapshot.
C28_FailedSaveKeepsPreviousSnapshot ==
    [][\A st \in Snapshots :
         (/\ cache_file.exists
          /\ cache_file.valid
          /\ JsonDump(st).raised
          /\ save_stats(st))
         => \A m \in MaxAges : \A t \in now..MaxNow :
                GetCachedStats(cache_file', m, t) = GetCachedStats(cache_file, m, t)]_vars

-----------------------------------------------------------------------------
(* The result cache and the request it serves *)

\* C27 as claimed: an aggregate the page serves from the result cache was
\* computed with the min_trading_value and the symbol set of the request it
\* is served to.
C27_CachedAggregateMatchesRequest ==
    (last.op = "analyze_market" /\ last.from_cache)
    => /\ latestSave.min_trading_value = last.min_trading_value
       /\ latestSave.symbols = last.symbols

-----------------------------------------------------------------------------
(* What a merged outcome says about the store *)

\* C29 as claimed: when DailyOHLCVUpdater.update_ticker reports that N > 0
\* records were merged, the save was committed and the store holds N bars
\* of the ticker that it did not hold before the call.
C29_MergedBarsAreStored ==
    [][(/\ now' = now
        /\ last'.op = "DailyOHLCVUpdater.update_ticker"
        /\ Merged')
       => /\ last'.outcome = "committed"
          /\ Cardinality(BarDays(disk', last'.symbol) \ BarDays(disk, last'.symbol))
                = last'.records]_vars

-----------------------------------------------------------------------------
(* Metadata rows and stored bars *)

HasMetadata(c, s, r) == \E m \in c.cache_metadata : m.symbol = s /\ m.resolution = r
HasBars(c, s, r) == \E x \in c.ohlcv_data : x.symbol = s /\ x.resolution = r

\* a (symbol, resolution) pair has a metadata row iff it has a stored bar
MetadataIffBars ==
    \A s \in Symbols, r \in Resolutions : HasMetadata(disk, s, r) <=> HasBars(disk, s, r)

\* C30 as claimed: after any sequence of save_ohlcv and clear_cache calls a
\* pair has a metadata row iff it has a bar, and get_cached_symbols() and
\* get_all_cached_tickers() give the same symbols.
C30_SymbolListsAgree ==
    /\ MetadataIffBars
    /\ GetCachedSymbols(conn, DefaultResolution) = GetAllCachedTickers(disk)

\* C30, amended: after any sequence of save_ohlcv and clear_cache calls a
\* pair has a metadata row iff it has a bar; get_cached_symbols(r) gives the
\* symbols with a bar at resolution r, and get_all_cached_tickers() the
\* symbols that get_cached_symbols gives at some resolution.
C30_MetadataIffBars ==
    /\ MetadataIffBars
    /\ \A r \in Resolutions :
         GetCachedSymbols(conn, r) = {s \in Symbols : HasBars(disk, s, r)}
    /\ GetAllCachedTickers(disk) = UNION {GetCachedSymbols(conn, r) : r \in Resolutions}

\* clear_cache("BBB") has left AAA with weekly bars only: the default list is
\* empty while the list read from the bars holds AAA
C30_Witness ==
    /\ last.op = "clear_cache"
    /\ last.symbol = "BBB"
    /\ GetCachedSymbols(conn, "1W") = {"AAA"}
    /\ GetCachedSymbols(conn, DefaultResolution) = {}
    /\ GetAllCachedTickers(disk) = {"AAA"}

====
